---- MODULE Spec2Model ----
(***************************************************************************)
(* Backup central server: agent registry, job ledger, event engine and the *)
(* liveness / health evaluation, modelled from central-server/app.         *)
(*                                                                         *)
(* Time is counted in whole minutes.  The record store is a plain list of  *)
(* rows per table (insertion order = primary key order).  The columns      *)
(* ip_address and os of an agent are written by create_agent but read by   *)
(* no decision of the modelled code; they are left out of the rows.        *)
(***************************************************************************)
EXTENDS Integers, Sequences, FiniteSets, TLC

\* ------------------------------------------------------------------ bounds
MaxTime == 2
MaxAgents == 2
MaxJobs == 2
MaxEvents == 1
MaxAlerts == 2
MaxTicks == 2
MaxNotes == 2
MaxSkew == 1
MaxHealthJobs == 2
MaxRequests == 2

\* Worker threads serving requests concurrently.
Procs == {1, 2}

\* Hostnames an agent may send at registration ("" is the empty hostname).
Hostnames == {"", "db01"}

\* Agent ids a caller may present: those the server may issue to a stored
\* agent, and one it never issues.
IdPool == 1..MaxAgents
UnknownId == MaxAgents + Cardinality(Procs) + 1

VARIABLES now, agents, configs, jobs, events, notifications, emails,
          frame, ret, out, client, scheduler

storeVars == <<agents, configs, jobs, events, notifications, emails>>
evalVars == <<out, client, scheduler>>
vars == <<now, agents, configs, jobs, events, notifications, emails,
          frame, ret, out, client, scheduler>>

\* ------------------------------------------------------------ call frames
IdleFrame == [pc |-> "idle", hostname |-> "", agent_id |-> 0, found |-> 0, t |-> 0,
              counts |-> <<>>, op |-> "none", arg |-> <<>>, event |-> <<>>, note |-> <<>>,
              rows |-> <<>>, entries |-> <<>>, stats |-> <<>>, days |-> 0,
              row |-> 0, enabled |-> <<>>, config |-> <<>>, call |-> "none",
              handling |-> "none", database |-> 0, performance |-> <<>>,
              metrics |-> <<>>, rule |-> 0, cond |-> 0, matches |-> TRUE,
              tips |-> <<>>, clk |-> <<>>, readings |-> <<>>]
NoRet == [proc |-> 0, op |-> "none", ok |-> FALSE, agent_id |-> 0, exc |-> "none", arg |-> ""]

\* The agent program on a client machine: which implementation runs, the
\* agent_id of its configuration (0 = none), where its main thread and its
\* heartbeat thread stand, how many requests to /api/register its web server
\* has taken and not yet sent on, which of its threads waits for the answer
\* of each server worker, the agent_id of the heartbeat being sent and the
\* status of the last heartbeat answered (0 = none yet).
NoClient == [impl |-> "none", agent_id |-> 0, pc |-> "off", hb |-> "off", api |-> 0,
             conn |-> <<"none", "none">>, sent |-> 0, last |-> 0]

\* SystemScheduler(): the registry `jobs` (the ids of the dict, in insertion
\* order), the running flag, the BackgroundScheduler it owns (its state, the
\* jobs added while stopped and the jobs of its job store) and the call that
\* returned last.
SystemScheduler ==
    [jobs |-> <<>>, running |-> FALSE,
     state |-> "stopped", pending |-> <<>>, stored |-> {},
     call |-> [op |-> "none", id |-> "", exc |-> "none"]]

\* The result of the evaluation that ran last (none so far).
NoOut == [op |-> "none"]

\* The outcome of the call that returned last: its worker, the value returned
\* (ok, agent_id) and the exception raised or caught inside it.
Return(p, op, ok, id, exc, arg) ==
    [proc |-> p, op |-> op, ok |-> ok, agent_id |-> id, exc |-> exc, arg |-> arg]

\* --------------------------------------------------------------- queries
\* query(...).filter(pred).first(): index of the first matching row, 0 = None
RECURSIVE FirstFrom(_, _, _, _)
FirstFrom(rows, field, value, i) ==
    IF i > Len(rows) THEN 0
    ELSE IF rows[i][field] = value THEN i
    ELSE FirstFrom(rows, field, value, i + 1)

get_agent(rows, agent_id) == FirstFrom(rows, "agent_id", agent_id, 1)

get_agent_by_hostname_miss(rows, hostname) == 0

get_agent_by_hostname(rows, hostname) == FirstFrom(rows, "hostname", hostname, 1)

\* uuid4(): an identifier no row and no call in flight holds.
UsedIds == {agents[i].agent_id : i \in 1..Len(agents)}
              \cup {frame[p].agent_id : p \in Procs}

uuid4 == CHOOSE id \in 1..(MaxAgents + Cardinality(Procs)) : id \notin UsedIds
            /\ \A j \in 1..(MaxAgents + Cardinality(Procs)) : j \notin UsedIds => id <= j

\* db.add(row); db.commit() on a table: the store appends the row as given.
StoreInsert(rows, row) == Append(rows, row)

\* config_hash of an agent row that was never given one (None).
NoHash == <<>>

NewAgent(hostname, agent_id, t) ==
    [hostname |-> hostname, agent_id |-> agent_id, last_seen |-> t,
     enabled |-> TRUE, config_hash |-> NoHash]

\* Rows a call in flight is about to insert count toward the table bound.
Inserting == {p \in Procs : frame[p].pc \in {"reg_new", "reg_insert_commit"}}

\* ------------------------------------------------------- create_agent
create_agent_lookup(p, hostname) ==
    /\ frame[p].pc = "idle"
    /\ LET existing == get_agent_by_hostname(agents, hostname) IN
       /\ existing = 0 => Len(agents) + Cardinality(Inserting) < MaxAgents
       /\ frame' = [frame EXCEPT ![p] =
                      [IdleFrame EXCEPT !.pc = IF existing # 0 THEN "reg_update" ELSE "reg_new",
                                        !.hostname = hostname,
                                        !.found = existing]]
    /\ UNCHANGED <<now, storeVars, ret, evalVars>>

create_agent_touch(p) ==
    /\ frame[p].pc = "reg_update"
    /\ frame' = [frame EXCEPT ![p].t = now, ![p].pc = "reg_update_commit"]
    /\ UNCHANGED <<now, storeVars, ret, evalVars>>

\* The commit of the update branch; a refused commit is logged, rolled back
\* and raised.
create_agent_update_commit(p) ==
    /\ frame[p].pc = "reg_update_commit"
    /\ \E stored \in BOOLEAN :
         IF stored
         THEN /\ agents' = [agents EXCEPT ![frame[p].found].last_seen = frame[p].t]
              /\ frame' = [frame EXCEPT ![p].pc = "reg_update_refresh"]
              /\ ret' = ret
         ELSE /\ agents' = agents
              /\ frame' = [frame EXCEPT ![p] = IdleFrame]
              /\ ret' =
                           Return(p, "create_agent", FALSE, 0, "StoreError", frame[p].hostname)
    /\ UNCHANGED <<now, configs, jobs, events, notifications, emails, evalVars>>

\* db.refresh(db_agent) reads the row again; the agent is returned.
create_agent_update_refresh(p) ==
    /\ frame[p].pc = "reg_update_refresh"
    /\ ret' = Return(p, "create_agent", TRUE, agents[frame[p].found].agent_id,
                     "none", frame[p].hostname)
    /\ frame' = [frame EXCEPT ![p] = IdleFrame]
    /\ UNCHANGED <<now, storeVars, evalVars>>

create_agent_new(p) ==
    /\ frame[p].pc = "reg_new"
    /\ frame' = [frame EXCEPT ![p].agent_id = uuid4, ![p].t = now,
                              ![p].pc = "reg_insert_commit"]
    /\ UNCHANGED <<now, storeVars, ret, evalVars>>

create_agent_insert_commit(p) ==
    /\ frame[p].pc = "reg_insert_commit"
    /\ \E stored \in BOOLEAN :
         IF stored
         THEN /\ agents' = StoreInsert(agents,
                               NewAgent(frame[p].hostname, frame[p].agent_id, frame[p].t))
              /\ frame' = [frame EXCEPT ![p].pc = "reg_insert_refresh",
                                        ![p].found = Len(agents) + 1]
              /\ ret' = ret
         ELSE /\ agents' = agents
              /\ frame' = [frame EXCEPT ![p] = IdleFrame]
              /\ ret' =
                           Return(p, "create_agent", FALSE, 0, "StoreError", frame[p].hostname)
    /\ UNCHANGED <<now, configs, jobs, events, notifications, emails, evalVars>>

\* db.refresh(db_agent) reads the new row; its agent_id is what
\* create_default_config is called with.
create_agent_insert_refresh(p) ==
    /\ frame[p].pc = "reg_insert_refresh"
    /\ frame' = [frame EXCEPT ![p].pc = "reg_config",
                              ![p].agent_id = agents[frame[p].found].agent_id]
    /\ UNCHANGED <<now, storeVars, ret, evalVars>>

\* A configuration is a dict: its <<key, value>> pairs in insertion order.
\* KeyRank is the order of the keys as sort_keys compares them.
KeyRank == [heartbeat_interval |-> 1, server_url |-> 2]

RECURSIVE InsertByKey(_, _)
InsertByKey(pair, sorted) ==
    IF sorted = <<>> THEN <<pair>>
    ELSE IF KeyRank[pair[1]] <= KeyRank[Head(sorted)[1]] THEN <<pair>> \o sorted
    ELSE <<Head(sorted)>> \o InsertByKey(pair, Tail(sorted))

RECURSIVE SortKeys(_)
SortKeys(config) ==
    IF config = <<>> THEN <<>> ELSE InsertByKey(Head(config), SortKeys(Tail(config)))

\* json.dumps(config, sort_keys=...): the text lists the pairs in insertion
\* order, or in key order when sort_keys is set.
json_dumps(config, sort_keys) ==
    [json |-> IF sort_keys THEN SortKeys(config) ELSE config]

\* hashlib.md5(text).hexdigest(): equal texts, equal digests.
md5(text) == <<"md5", text.json>>

generate_config_hash(config) == md5(json_dumps(config, TRUE))

\* The default configuration, by its keys read by the agents.
default_config == << <<"server_url", "http://host:9200/api/agents">>,
                     <<"heartbeat_interval", 60>> >>

AgentConfig(agent_id, config) == [agent_id |-> agent_id, config |-> json_dumps(config, FALSE)]

\* create_default_config adds the configuration row and commits; it has no
\* handler of its own, so a refused commit is raised through create_agent.
create_default_config(p) ==
    /\ frame[p].pc = "reg_config"
    /\ \E stored \in BOOLEAN :
         IF stored
         THEN /\ configs' = StoreInsert(configs,
                               AgentConfig(frame[p].agent_id, default_config))
              /\ frame' = [frame EXCEPT ![p].pc = "reg_return"]
              /\ ret' = ret
         ELSE /\ configs' = configs
              /\ frame' = [frame EXCEPT ![p] = IdleFrame]
              /\ ret' =
                           Return(p, "create_agent", FALSE, 0, "StoreError", frame[p].hostname)
    /\ UNCHANGED <<now, agents, jobs, events, notifications, emails, evalVars>>

\* Back in create_agent: the log line reads hostname and agent_id of the
\* agent, which the commit has expired, so the row is loaded again; the agent
\* is returned.
create_agent_return(p) ==
    /\ frame[p].pc = "reg_return"
    /\ ret' = Return(p, "create_agent", TRUE, agents[frame[p].found].agent_id,
                     "none", frame[p].hostname)
    /\ frame' = [frame EXCEPT ![p] = IdleFrame]
    /\ UNCHANGED <<now, storeVars, evalVars>>

\* ------------------------------------- update_agent_config, update_agent
\* The first configuration row of agent_id (0 = None).
ConfigRow(agent_id) == FirstFrom(configs, "agent_id", agent_id, 1)

\* The writes update_agent_config commits: the configuration row it found
\* (row 0: the new row it added) takes the new text, and the agent it found,
\* when there is one, the hash of the configuration.
ConfigWrite(rows, row, agent_id, config) ==
    IF row = 0 THEN StoreInsert(rows, AgentConfig(agent_id, config))
    ELSE [rows EXCEPT ![row].config = json_dumps(config, FALSE)]

HashWrite(rows, found, config) ==
    IF found = 0 THEN rows
    ELSE [rows EXCEPT ![found].config_hash = generate_config_hash(config)]

\* The enabled flag update_agent has set on its agent and not yet committed
\* (pending = <<>>: nothing is waiting).
EnabledWrite(rows, found, pending) ==
    IF pending = <<>> THEN rows ELSE [rows EXCEPT ![found].enabled = pending[1]]

\* Calls in flight that may add a configuration row count toward the bound.
ConfigCalls == {q \in Procs : frame[q].op \in {"update_agent_config", "update_agent"}}

\* update_agent_config, access by access.  The call starts with the query
\* of the configuration row.
update_agent_config(p, agent_id, config) ==
    /\ frame[p].pc = "idle"
    /\ ConfigRow(agent_id) = 0 => Len(configs) + Cardinality(ConfigCalls) < MaxAgents
    /\ frame' = [frame EXCEPT ![p] =
                   [IdleFrame EXCEPT !.pc = "config_agent", !.op = "update_agent_config",
                                     !.agent_id = agent_id, !.config = config,
                                     !.row = ConfigRow(agent_id)]]
    /\ UNCHANGED <<now, storeVars, ret, evalVars>>

\* The same query when update_agent calls update_agent_config.
update_agent_config_query(p) ==
    /\ frame[p].pc = "config_query"
    /\ frame' = [frame EXCEPT ![p].pc = "config_agent",
                              ![p].row = ConfigRow(frame[p].agent_id)]
    /\ UNCHANGED <<now, storeVars, ret, evalVars>>

\* get_agent, for the hash.
update_agent_config_agent(p) ==
    /\ frame[p].pc = "config_agent"
    /\ frame' = [frame EXCEPT ![p].pc = "config_commit",
                              ![p].found = get_agent(agents, frame[p].agent_id)]
    /\ UNCHANGED <<now, storeVars, ret, evalVars>>

\* The commit of update_agent_config.  It stores whatever the session holds:
\* within update_agent also the enabled flag.  A refused commit is raised,
\* through update_agent when that is the caller.
update_agent_config_commit(p) ==
    /\ frame[p].pc = "config_commit"
    /\ LET f == frame[p] IN
       \E stored \in BOOLEAN :
         IF stored
         THEN /\ configs' = ConfigWrite(configs, f.row, f.agent_id, f.config)
              /\ agents' = EnabledWrite(HashWrite(agents, f.found, f.config),
                                        f.found, f.enabled)
              /\ IF f.op = "update_agent"
                 THEN /\ frame' = [frame EXCEPT ![p].pc = "update_commit",
                                                 ![p].enabled = <<>>]
                      /\ ret' = ret
                 ELSE /\ frame' = [frame EXCEPT ![p] = IdleFrame]
                      /\ ret' = Return(p, f.op, TRUE, f.agent_id, "none", f.config)
         ELSE /\ UNCHANGED <<configs, agents>>
              /\ frame' = [frame EXCEPT ![p] = IdleFrame]
              /\ ret' = Return(p, f.op, FALSE, f.agent_id, "StoreError", f.config)
    /\ UNCHANGED <<now, jobs, events, notifications, emails, evalVars>>

\* update_agent: None for an unknown agent; otherwise the enabled flag is
\* set on the agent and a configuration that is given (has_config: the
\* update has a "config" key) and not empty goes through update_agent_config.
update_agent(p, agent_id, enabled, has_config, config) ==
    /\ frame[p].pc = "idle"
    /\ LET a == get_agent(agents, agent_id)
           given == has_config /\ config # <<>> IN
       IF a = 0
       THEN /\ ret' = Return(p, "update_agent", FALSE, agent_id, "none", config)
            /\ frame' = frame
       ELSE /\ (given /\ ConfigRow(agent_id) = 0)
                  => Len(configs) + Cardinality(ConfigCalls) < MaxAgents
            /\ frame' = [frame EXCEPT ![p] =
                           [IdleFrame EXCEPT !.pc = IF given THEN "config_query"
                                                    ELSE "update_commit",
                                             !.op = "update_agent",
                                             !.agent_id = agent_id, !.found = a,
                                             !.enabled = <<enabled>>,
                                             !.config = config]]
            /\ ret' = ret
    /\ UNCHANGED <<now, storeVars, evalVars>>

\* The commit of update_agent itself, after that of update_agent_config
\* when there was one.
update_agent_commit(p) ==
    /\ frame[p].pc = "update_commit"
    /\ LET f == frame[p] IN
       \E stored \in BOOLEAN :
         IF stored
         THEN /\ agents' = EnabledWrite(agents, f.found, f.enabled)
              /\ frame' = [frame EXCEPT ![p].pc = "update_refresh", ![p].enabled = <<>>]
              /\ ret' = ret
         ELSE /\ agents' = agents
              /\ frame' = [frame EXCEPT ![p] = IdleFrame]
              /\ ret' = Return(p, "update_agent", FALSE, f.agent_id, "StoreError", f.config)
    /\ UNCHANGED <<now, configs, jobs, events, notifications, emails, evalVars>>

\* db.refresh(agent) reads the row again; the agent is returned.
update_agent_refresh(p) ==
    /\ frame[p].pc = "update_refresh"
    /\ ret' = Return(p, "update_agent", TRUE, agents[frame[p].found].agent_id, "none",
                     frame[p].config)
    /\ frame' = [frame EXCEPT ![p] = IdleFrame]
    /\ UNCHANGED <<now, storeVars, evalVars>>

\* ---------------------------------------------- update_agent_heartbeat
update_agent_heartbeat_lookup(p, agent_id) ==
    /\ frame[p].pc = "idle"
    /\ LET agent == get_agent(agents, agent_id) IN
       IF agent = 0
       THEN /\ ret' =
                         Return(p, "update_agent_heartbeat", FALSE, agent_id, "none", "")
            /\ frame' = frame
       ELSE /\ frame' = [frame EXCEPT ![p] =
                           [IdleFrame EXCEPT !.pc = "hb_touch", !.found = agent]]
            /\ ret' = ret
    /\ UNCHANGED <<now, storeVars, evalVars>>

update_agent_heartbeat_touch(p) ==
    /\ frame[p].pc = "hb_touch"
    /\ frame' = [frame EXCEPT ![p].t = now, ![p].pc = "hb_commit"]
    /\ UNCHANGED <<now, storeVars, ret, evalVars>>

HeartbeatWrite(rows, i, t) == [rows EXCEPT ![i].last_seen = t]

update_agent_heartbeat_commit(p) ==
    /\ frame[p].pc = "hb_commit"
    /\ \E stored \in BOOLEAN :
         IF stored
         THEN /\ agents' = HeartbeatWrite(agents, frame[p].found, frame[p].t)
              /\ ret' =
                           Return(p, "update_agent_heartbeat", TRUE,
                                  agents[frame[p].found].agent_id, "none", "")
         ELSE /\ agents' = agents
              /\ ret' =
                           Return(p, "update_agent_heartbeat", FALSE,
                                  agents[frame[p].found].agent_id, "StoreError", "")
    /\ frame' = [frame EXCEPT ![p] = IdleFrame]
    /\ UNCHANGED <<now, configs, jobs, events, notifications, emails, evalVars>>

\* ------------------------------------------------------- report_backup
\* end_time of a report that carries none (None in the row).
NoTime == -1

JobStatuses == {"running", "success", "failed", "warning", "bogus"}
JobSizes == {-1, 1}
JobTimes == {0, 1}

BackupJob(agent_id, status, size_bytes, start_time, end_time) ==
    [agent_id |-> agent_id, status |-> status, size_bytes |-> size_bytes,
     start_time |-> start_time, end_time |-> end_time]

\* report_backup builds the row, adds it and commits; a refused commit is
\* logged, rolled back and raised.
report_backup(p, agent_id, status, size_bytes, start_time, end_time) ==
    /\ frame[p].pc = "idle"
    /\ Len(jobs) < MaxJobs
    /\ \E stored \in BOOLEAN :
         IF stored
         THEN /\ jobs' = StoreInsert(jobs,
                            BackupJob(agent_id, status, size_bytes, start_time, end_time))
              /\ frame' = [frame EXCEPT ![p] =
                             [IdleFrame EXCEPT !.pc = "report_refresh",
                                               !.op = "report_backup",
                                               !.row = Len(jobs) + 1]]
              /\ ret' = ret
         ELSE /\ jobs' = jobs
              /\ frame' = frame
              /\ ret' = Return(p, "report_backup", FALSE, agent_id, "StoreError", status)
    /\ UNCHANGED <<now, agents, configs, events, notifications, emails, evalVars>>

\* db.refresh(db_backup) reads the row again; the job is returned.
report_backup_refresh(p) ==
    /\ frame[p].pc = "report_refresh"
    /\ ret' = Return(p, "report_backup", TRUE, jobs[frame[p].row].agent_id, "none",
                     jobs[frame[p].row].status)
    /\ frame' = [frame EXCEPT ![p] = IdleFrame]
    /\ UNCHANGED <<now, storeVars, evalVars>>

\* ------------------------------------------------------- events
EVENT_CATEGORIES ==
    [agent    |-> {"register", "heartbeat", "config_update", "offline", "online"},
     backup   |-> {"start", "success", "failed", "warning"},
     system   |-> {"startup", "shutdown", "error", "maintenance"},
     security |-> {"login", "logout", "unauthorized", "config_change"}]

EVENT_PRIORITIES == [low |-> 1, medium |-> 2, high |-> 3, critical |-> 4]

Categories == DOMAIN EVENT_CATEGORIES
EventTypes == UNION {EVENT_CATEGORIES[c] : c \in Categories}
Priorities == DOMAIN EVENT_PRIORITIES

\* The three checks at the head of create_event; "none" when all pass.
create_event_validate_no_type(category, event_type, priority) ==
    IF category \notin Categories THEN "ValueError"
    ELSE IF priority \notin Priorities THEN "ValueError"
    ELSE "none"

create_event_validate(category, event_type, priority) ==
    IF category \notin Categories THEN "ValueError"
    ELSE IF event_type \notin EVENT_CATEGORIES[category] THEN "ValueError"
    ELSE IF priority \notin Priorities THEN "ValueError"
    ELSE "none"

should_send_email_always(priority) == TRUE

should_send_email(priority) == priority \in {"high", "critical"}

\* The row send_notification stores and the email it hands over.
Notification(title, category, priority, related_id) ==
    [title |-> title, category |-> category, priority |-> priority,
     related_id |-> related_id, read |-> FALSE]

NotificationEmail(note) == [subject |-> note.title, priority |-> note.priority]

\* send_event_notification binds `message` only on these branches; on the
\* others the use of `message` raises UnboundLocalError.
MessageBound(category, event_type) ==
    IF category = "agent" THEN event_type \in {"offline", "failed"}
    ELSE IF category = "backup" THEN event_type = "failed"
    ELSE TRUE

SystemEvent(category, event_type, agent_id, related_id, priority) ==
    [category |-> category, event_type |-> event_type,
     agent_id |-> agent_id, related_id |-> related_id, priority |-> priority]

\* related_id=event.agent_id or event.related_id (0 stands for None)
EventRelatedId(event) == IF event.agent_id # 0 THEN event.agent_id ELSE event.related_id

EventTitle(event) == <<"Evento", event.priority, event.event_type>>

\* The jobs of the scheduler that raise alerts.  Each encloses its body in
\* try/except: whatever is raised inside ends the job and is printed.
AlertJobs == {"check_offline_agents", "monitor_storage_usage"}

\* What a job leaves behind when it ends: for the offline check the instant
\* of its threshold and the agents it selected, for the storage monitor the
\* usage it read, for the daily report the exception its handler caught; the
\* exception that ended it ("none": it ran to its end); and, for the alert
\* jobs, the sizes of the event and notification tables when it started.
JobResult(f, exc) ==
    IF f.op = "check_offline_agents"
    THEN [op |-> f.op, t |-> f.t,
          offline |-> {f.rows[i].agent_id : i \in 1..Len(f.rows)},
          exc |-> exc, first |-> f.counts]
    ELSE IF f.op = "monitor_storage_usage"
    THEN [op |-> f.op, usage_percent |-> f.found, exc |-> exc, first |-> f.counts]
    ELSE [op |-> f.op, handled |-> f.handling, exc |-> exc]

\* create_event or send_notification, called by worker p with frame f,
\* returns (exc = "none") or raises exc.  A request gets the outcome.  An
\* alert job goes on after a return (to its send_notification after
\* create_event, to the rest of its body after send_notification) and ends on
\* an exception.  The daily report ends when its send_notification returns;
\* an exception in its body takes it to its handler, and one raised by the
\* handler ends it.
Leave(p, f, exc) ==
    IF f.op \in AlertJobs
    THEN IF exc = "none"
         THEN /\ frame' = [frame EXCEPT ![p] =
                             [f EXCEPT !.pc = IF f.call = "create_event"
                                              THEN "job_notify" ELSE "job_loop",
                                       !.call = "none", !.event = <<>>, !.note = <<>>]]
              /\ UNCHANGED <<ret, out>>
         ELSE /\ frame' = [frame EXCEPT ![p] = IdleFrame]
              /\ out' = JobResult(f, exc)
              /\ ret' = ret
    ELSE IF f.op = "generate_daily_report"
    THEN IF exc # "none" /\ f.handling = "none"
         THEN /\ frame' = [frame EXCEPT ![p] =
                             [f EXCEPT !.pc = "daily_error", !.handling = exc,
                                       !.call = "none", !.note = <<>>]]
              /\ UNCHANGED <<ret, out>>
         ELSE /\ frame' = [frame EXCEPT ![p] = IdleFrame]
              /\ out' = JobResult(f, exc)
              /\ ret' = ret
    ELSE /\ frame' = [frame EXCEPT ![p] = IdleFrame]
         /\ ret' = Return(p, f.op, exc = "none", f.agent_id, exc, f.arg)
         /\ out' = out

\* create_event up to the commit of the event row, called by worker p with
\* frame f.  `details` tells whether a non-empty details dict is passed:
\* json.dumps(details) then raises NameError, the module never importing
\* json.  The row index of the stored event is kept for the refresh.
create_event_call(p, f, category, event_type, agent_id, related_id, details, priority) ==
    LET invalid == create_event_validate(category, event_type, priority)
        event == SystemEvent(category, event_type, agent_id, related_id, priority)
        raise(exc) == events' = events /\ Leave(p, f, exc)
    IN IF invalid # "none" THEN raise(invalid)
       ELSE IF details THEN raise("NameError")
       ELSE \E stored \in BOOLEAN :
              IF ~stored THEN raise("StoreError")
              ELSE /\ events' = StoreInsert(events, event)
                   /\ frame' = [frame EXCEPT ![p] =
                                  [f EXCEPT !.pc = "event_refresh",
                                            !.call = "create_event",
                                            !.row = Len(events) + 1]]
                   /\ UNCHANGED <<ret, out>>

\* A request calls create_event.
create_event(p, category, event_type, agent_id, related_id, details, priority) ==
    /\ frame[p].pc = "idle"
    /\ Len(events) < MaxEvents
    /\ create_event_call(p, [IdleFrame EXCEPT !.op = "create_event",
                                              !.call = "create_event",
                                              !.agent_id = agent_id,
                                              !.arg = <<category, event_type, priority>>],
                         category, event_type, agent_id, related_id, details, priority)
    /\ UNCHANGED <<now, agents, configs, jobs, notifications, emails, client, scheduler>>

\* db.refresh(event) reads the row again; an event of priority high or
\* critical goes on to send_event_notification, any other is returned.
create_event_refresh(p) ==
    /\ frame[p].pc = "event_refresh"
    /\ LET event == events[frame[p].row] IN
       IF EVENT_PRIORITIES[event.priority] >= EVENT_PRIORITIES["high"]
       THEN /\ frame' = [frame EXCEPT ![p].pc = "send_event_notification",
                                       ![p].event = <<event>>]
            /\ UNCHANGED <<ret, out>>
       ELSE Leave(p, frame[p], "none")
    /\ UNCHANGED <<now, storeVars, client, scheduler>>

\* The commit of the notification row in send_notification, called by
\* worker p with frame f: an exception of the commit reaches the caller.
notification_commit(p, f, note) ==
    \E stored \in BOOLEAN :
       IF ~stored
       THEN /\ notifications' = notifications
            /\ Leave(p, f, "StoreError")
       ELSE /\ notifications' = StoreInsert(notifications, note)
            /\ frame' = [frame EXCEPT ![p] =
                           [f EXCEPT !.pc = "notification_refresh",
                                     !.note = <<note>>,
                                     !.row = Len(notifications) + 1]]
            /\ UNCHANGED <<ret, out>>

\* send_event_notification, called by create_event after the refresh.
send_event_notification(p) ==
    /\ frame[p].pc = "send_event_notification"
    /\ LET event == frame[p].event[1] IN
       IF ~MessageBound(event.category, event.event_type)
       THEN /\ notifications' = notifications
            /\ Leave(p, frame[p], "UnboundLocalError")
       ELSE notification_commit(p, frame[p],
                                Notification(EventTitle(event), event.category,
                                             event.priority, EventRelatedId(event)))
    /\ UNCHANGED <<now, agents, configs, jobs, events, emails, client, scheduler>>

\* db.refresh(notification) reads the row again; a notification whose
\* priority (the argument of the call) asks for an email goes on to the
\* email, any other is returned.
send_notification_refresh(p) ==
    /\ frame[p].pc = "notification_refresh"
    /\ LET priority == frame[p].note[1].priority IN
       IF should_send_email(priority)
       THEN /\ frame' = [frame EXCEPT ![p].pc = "send_notification_email"]
            /\ UNCHANGED <<ret, out>>
       ELSE Leave(p, frame[p], "none")
    /\ UNCHANGED <<now, storeVars, client, scheduler>>

\* The email of send_notification: the addresses are queried and the email
\* is handed over (a failed delivery is caught and changes nothing); the call
\* returns.
send_notification_email(p) ==
    /\ frame[p].pc = "send_notification_email"
    /\ emails' = Append(emails, NotificationEmail(frame[p].note[1]))
    /\ Leave(p, frame[p], "none")
    /\ UNCHANGED <<now, agents, configs, jobs, events, notifications, client, scheduler>>

\* A request calls send_notification (send_email left at its default).
notify(p, category, priority) ==
    /\ frame[p].pc = "idle"
    /\ Len(notifications) < MaxNotes
    /\ notification_commit(p, [IdleFrame EXCEPT !.op = "send_notification",
                                                !.call = "send_notification",
                                                !.arg = <<category, priority>>],
                           Notification(<<"Aviso", priority>>, category, priority, 0))
    /\ UNCHANGED <<now, agents, configs, jobs, events, emails, client, scheduler>>

\* ------------------------------------------- statistics and health
\* settings.agent_heartbeat_timeout_minutes
agent_heartbeat_timeout_minutes == 15

MinutesPerDay == 24 * 60

\* The interpreter computes rates and averages in binary64 floats.  A float
\* x >= 0 is kept here as [limbs, exp], x = limbs * 2^exp, where limbs is a
\* whole number written in base 2^LimbBits, lowest limb first, of at most
\* Significand bits.  The operators hold for whole numbers below 2^31 and
\* divisors up to 2^21.
Significand == 53
LimbBits == 10
Base == 2 ^ LimbBits

Limb(n, j) == IF j \in 1..Len(n) THEN n[j] ELSE 0

\* the number of bits of a limb, and of a number
LimbLen(v) == CHOOSE k \in 0..LimbBits : v < 2 ^ k /\ (k = 0 \/ v >= 2 ^ (k - 1))

BitLen(n) ==
    LET used == {j \in 1..Len(n) : n[j] # 0} IN
    IF used = {} THEN 0
    ELSE LET top == CHOOSE j \in used : \A i \in used : i <= j
         IN LimbBits * (top - 1) + LimbLen(n[top])

\* bit i of n (bit 0 is the lowest), and whether a bit below bit i is set
BitAt(n, i) == (Limb(n, i \div LimbBits + 1) \div 2 ^ (i % LimbBits)) % 2

AnyBelow(n, i) ==
    \/ \E j \in 1..Len(n) : j <= i \div LimbBits /\ n[j] # 0
    \/ Limb(n, i \div LimbBits + 1) % 2 ^ (i % LimbBits) # 0

\* n \div 2^d
ShiftRight(n, d) ==
    LET q == d \div LimbBits
        s == d % LimbBits
    IN [j \in 1..Len(n) |->
          Limb(n, j + q) \div 2 ^ s + (Limb(n, j + q + 1) % 2 ^ s) * 2 ^ (LimbBits - s)]

\* n + 1 (the highest limb of n has room for the carry)
Increment(n) ==
    [j \in 1..Len(n) |->
        IF \A i \in 1..(j - 1) : n[i] = Base - 1 THEN (n[j] + 1) % Base ELSE n[j]]

\* n * m + carry for a small factor m
RECURSIVE MulSmall(_, _, _)
MulSmall(n, m, carry) ==
    IF n = <<>> THEN <<carry>>
    ELSE <<(Head(n) * m + carry) % Base>>
         \o MulSmall(Tail(n), m, (Head(n) * m + carry) \div Base)

\* The whole number nearest to n / 2^d, a tie going to the even one; `more`
\* tells that the value n stands for lies above n.
RoundHalfEven(n, d, more) ==
    IF d <= 0 THEN n
    ELSE LET kept == ShiftRight(n, d)
             up == /\ BitAt(n, d - 1) = 1
                   /\ (more \/ AnyBelow(n, d - 1) \/ kept[1] % 2 = 1)
         IN IF up THEN Increment(kept) ELSE kept

\* The float nearest to n * 2^exp.
RoundToFloat(n, exp, more) ==
    LET d == BitLen(n) - Significand IN
    IF d <= 0 THEN [limbs |-> n, exp |-> exp]
    ELSE [limbs |-> RoundHalfEven(n, d, more), exp |-> exp + d]

\* The first k limbs of r / b after the point (r < b), lowest first, and the
\* remainder they leave.
RECURSIVE Fraction(_, _, _)
Fraction(r, b, k) ==
    IF k = 0 THEN [limbs |-> <<>>, rem |-> r]
    ELSE LET rest == Fraction((r * Base) % b, b, k - 1)
         IN [limbs |-> Append(rest.limbs, (r * Base) \div b), rem |-> rest.rem]

RECURSIVE LimbsOf(_, _)
LimbsOf(v, k) == IF k = 0 THEN <<>> ELSE <<v % Base>> \o LimbsOf(v \div Base, k - 1)

FractionLimbs == 8
WholeLimbs == 4

\* a / b of two whole numbers a >= 0 and b > 0, as a float
float_div(a, b) ==
    LET f == Fraction(a % b, b, FractionLimbs)
    IN RoundToFloat(f.limbs \o LimbsOf(a \div b, WholeLimbs),
                    0 - LimbBits * FractionLimbs, f.rem # 0)

\* x * 100, as a float
float_times_100(x) == RoundToFloat(MulSmall(x.limbs, 100, 0), x.exp, FALSE)

\* round(x, 2), in hundredths: the decimal with two places nearest to the
\* value of the float, a tie going to the even one.
round2(x) ==
    LET hundredths == RoundHalfEven(MulSmall(x.limbs, 100, 0), 0 - x.exp, FALSE)
    IN hundredths[1] + hundredths[2] * Base + hundredths[3] * Base * Base
       + hundredths[4] * Base * Base * Base

Percent2_full_when_empty(part, total) ==
    IF total > 0 THEN round2(float_times_100(float_div(part, total))) ELSE 10000

\* round((part / total * 100) if total > 0 else 0, 2), in hundredths of a percent
Percent2(part, total) ==
    IF total > 0 THEN round2(float_times_100(float_div(part, total))) ELSE 0

\* round(total_duration / total_count, 2), in hundredths of a second; the
\* sign of a negative sum of durations is that of the average.
AvgDuration(total_duration, total_count) ==
    IF total_duration < 0 THEN 0 - round2(float_div(0 - total_duration, total_count))
    ELSE round2(float_div(total_duration, total_count))

RECURSIVE SumDuration(_)
SumDuration(rows) ==
    IF rows = <<>> THEN 0
    ELSE (IF Head(rows).end_time # NoTime
          THEN (Head(rows).end_time - Head(rows).start_time) * 60
          ELSE 0) + SumDuration(Tail(rows))

JobsOf(rows, agent_id) == SelectSeq(rows, LAMBDA j : j.agent_id = agent_id)
WithStatus(rows, status) == SelectSeq(rows, LAMBDA j : j.status = status)

\* Liveness as get_agent_stats decides it at instant t.
StatsStatus(last_seen, t) ==
    IF last_seen > t - agent_heartbeat_timeout_minutes THEN "online" ELSE "offline"

\* get_agent_performance over the last `days` days, the clock read at t.
\* avg_duration is in hundredths of a second.
get_agent_performance(rowsJ, agent_id, t, days) ==
    LET start_date == t - days * MinutesPerDay
        backups == SelectSeq(rowsJ, LAMBDA j : j.agent_id = agent_id
                                               /\ j.start_time >= start_date)
        success_count == Len(WithStatus(backups, "success"))
        total_count == Len(backups)
        total_duration == SumDuration(backups)
    IN IF backups = <<>>
       THEN [success_rate |-> 0, avg_duration |-> 0, total_backups |-> 0]
       ELSE [success_rate |-> Percent2(success_count, total_count),
             avg_duration |-> IF total_count > 0
                              THEN AvgDuration(total_duration, total_count) ELSE 0,
             total_backups |-> total_count]

\* Scores are counted in 200ths of a point, so that (80 - success_rate) * 0.5
\* with success_rate in hundredths stays integral: Points(100) is a score of 100.
Points(n) == n * 200

Unclamped(score) == score

\* max(0, min(100, score))
Clamp(score) ==
    IF score < Points(0) THEN Points(0)
    ELSE IF score > Points(100) THEN Points(100) ELSE score

ScoreOnline_never(last_seen, t) == FALSE

\* The +10 bonus line of calculate_health_score, the clock read at t.
ScoreOnline(last_seen, t) == last_seen > t - 15

calculate_health_score(last_seen, performance, issues, t) ==
    LET s0 == Points(100)
        s1 == IF "high_failure_rate" \in issues THEN s0 - Points(30) ELSE s0
        s2 == IF "not_reporting" \in issues THEN s1 - Points(40) ELSE s1
        s3 == IF "low_success_rate" \in issues THEN s2 - Points(20) ELSE s2
        s4 == IF performance.success_rate < 8000
              THEN s3 - (8000 - performance.success_rate) ELSE s3
        s5 == IF ScoreOnline(last_seen, t) THEN s4 + Points(10) ELSE s4
    IN Clamp(s5)

\* is_online of generate_agent_health_report, the clock read at t.
ReportOnline(last_seen, t) == last_seen > t - 15

Issues_only_with_jobs(last_seen, stats, performance, t) ==
    (IF 10 * stats.failed_backups > 3 * stats.total_backups
     THEN {"high_failure_rate"} ELSE {})
    \cup (IF last_seen < t - 60 THEN {"not_reporting"} ELSE {})
    \cup (IF stats.total_backups > 0 /\ performance.success_rate < 8000
          THEN {"low_success_rate"} ELSE {})

\* The issue list of generate_agent_health_report, the clock read at t.
Issues(last_seen, stats, performance, t) ==
    (IF 10 * stats.failed_backups > 3 * stats.total_backups
     THEN {"high_failure_rate"} ELSE {})
    \cup (IF last_seen < t - 60 THEN {"not_reporting"} ELSE {})
    \cup (IF performance.success_rate < 8000 THEN {"low_success_rate"} ELSE {})

\* One entry of generate_agent_health_report, from the agent as get_agents
\* returned it and the results of get_agent_stats and get_agent_performance.
\* clk holds the successive readings of the clock: by get_agent_stats, by
\* get_agent_performance, for is_online, for the not_reporting test and by
\* calculate_health_score.
agent_health(agent, stats, performance, clk) ==
    LET is_online == ReportOnline(agent.last_seen, clk.online)
        issues == Issues(agent.last_seen, stats, performance, clk.issue)
    IN [agent_id |-> agent.agent_id,
        status |-> IF is_online THEN "online" ELSE "offline",
        last_seen |-> agent.last_seen,
        stats |-> stats,
        performance |-> performance,
        issues |-> issues,
        health_score |-> calculate_health_score(agent.last_seen, performance,
                                                issues, clk.score),
        clk |-> clk]

\* get_agents(db): the first `limit` rows, in insertion order.
get_agents(rowsA, limit) == SubSeq(rowsA, 1, IF Len(rowsA) < limit THEN Len(rowsA) ELSE limit)

\* The readings of the clock a call may see after the reading `last`: the
\* clock does not go back, and advances by at most MaxSkew while the
\* evaluations in progress run.
ClockReadings(last) == {t \in now..(now + MaxSkew) : t >= last}

\* The record get_agent_stats returns, from the agent, the three counts and
\* the clock read at t.  Rates are in hundredths of a percent.
agent_stats_record(agent, counts, t) ==
    [agent_id |-> agent.agent_id,
     hostname |-> agent.hostname,
     total_backups |-> counts[1],
     success_backups |-> counts[2],
     failed_backups |-> counts[3],
     success_rate |-> Percent2(counts[2], counts[1]),
     status |-> StatsStatus(agent.last_seen, t),
     last_seen |-> agent.last_seen,
     t |-> t]

\* get_agent_stats query by query, as a worker runs it while other workers
\* commit: the agent lookup, then the counts of all jobs, of the successful
\* and of the failed jobs of the agent, then the clock and the result.
get_agent_stats_lookup(p, agent_id) ==
    /\ frame[p].pc = "idle"
    /\ LET agent == get_agent(agents, agent_id) IN
       IF agent = 0
       THEN /\ out' = [op |-> "get_agent_stats", known |-> FALSE, agent_id |-> agent_id]
            /\ frame' = frame
       ELSE /\ frame' = [frame EXCEPT ![p] =
                           [IdleFrame EXCEPT !.pc = "stats_count", !.op = "get_agent_stats",
                                             !.rows = <<agents[agent]>>, !.found = 1,
                                             !.agent_id = agent_id, !.t = now]]
            /\ out' = out
    /\ UNCHANGED <<now, storeVars, ret, client, scheduler>>

\* The three count queries, in the order the code runs them.
StatsQueries == <<"total_backups", "success_backups", "failed_backups">>

Counted(j, query) ==
    \/ query = "total_backups"
    \/ query = "success_backups" /\ j.status = "success"
    \/ query = "failed_backups" /\ j.status = "failed"

get_agent_stats_count(p) ==
    /\ frame[p].pc = "stats_count"
    /\ Len(frame[p].counts) < Len(StatsQueries)
    /\ LET query == StatsQueries[Len(frame[p].counts) + 1]
           mine == SelectSeq(jobs, LAMBDA j : j.agent_id = frame[p].agent_id
                                              /\ Counted(j, query))
       IN frame' = [frame EXCEPT ![p].counts = Append(@, Len(mine))]
    /\ UNCHANGED <<now, storeVars, ret, evalVars>>

\* The end of get_agent_stats: the clock is read and the record returned, to
\* the caller of the worker or to the health report or the analysis the
\* worker is running.
get_agent_stats_return(p) ==
    /\ frame[p].pc = "stats_count"
    /\ Len(frame[p].counts) = Len(StatsQueries)
    /\ \E t \in ClockReadings(frame[p].t) :
         LET stats == agent_stats_record(frame[p].rows[frame[p].found], frame[p].counts, t) IN
         IF frame[p].op \in {"generate_agent_health_report", "generate_daily_report",
                              "analyze_agent_health"}
         THEN /\ frame' = [frame EXCEPT ![p].pc = IF frame[p].op = "analyze_agent_health"
                                                  THEN "analyze_performance"
                                                  ELSE "report_performance",
                                         ![p].stats = <<stats>>, ![p].t = t]
              /\ out' = out
         ELSE /\ frame' = [frame EXCEPT ![p] = IdleFrame]
              /\ out' = [op |-> "get_agent_stats", known |-> TRUE,
                         agent_id |-> frame[p].agent_id, stats |-> stats]
    /\ UNCHANGED <<now, storeVars, ret, client, scheduler>>

\* generate_agent_health_report, query by query.  It starts with get_agents.
generate_agent_health_report(p, days) ==
    /\ frame[p].pc = "idle"
    /\ frame' = [frame EXCEPT ![p] =
                   [IdleFrame EXCEPT !.pc = "report_loop",
                                     !.op = "generate_agent_health_report",
                                     !.rows = get_agents(agents, 100),
                                     !.days = days, !.t = now]]
    /\ UNCHANGED <<now, storeVars, ret, evalVars>>

\* The head of the loop: the report is returned after the last agent (to
\* the daily report when that is the caller, which goes on to its
\* notification); otherwise get_agent_stats is called for the next one and looks it up.
report_loop(p) ==
    /\ frame[p].pc = "report_loop"
    /\ IF Len(frame[p].entries) = Len(frame[p].rows)
       THEN IF frame[p].op = "generate_daily_report"
            THEN /\ frame' = [frame EXCEPT ![p].pc = "daily_notify",
                                            ![p].entries = <<>>, ![p].rows = <<>>]
                 /\ out' = out
            ELSE /\ out' = [op |-> "generate_agent_health_report",
                            agents |-> frame[p].entries]
                 /\ frame' = [frame EXCEPT ![p] = IdleFrame]
       ELSE /\ frame' = [frame EXCEPT ![p].pc = "stats_count",
                                       ![p].found = Len(frame[p].entries) + 1,
                                       ![p].agent_id =
                                           frame[p].rows[Len(frame[p].entries) + 1].agent_id,
                                       ![p].counts = <<>>]
            /\ out' = out
    /\ UNCHANGED <<now, storeVars, ret, client, scheduler>>

\* get_agent_performance (one query) and the rest of the loop body, which
\* reads the clock for is_online, for not_reporting and for the score.
report_performance(p) ==
    /\ frame[p].pc = "report_performance"
    /\ \E perf \in ClockReadings(frame[p].t) :
       \E online \in ClockReadings(perf) :
       \E issue \in ClockReadings(online) :
       \E score \in ClockReadings(issue) :
         LET agent == frame[p].rows[frame[p].found]
             stats == frame[p].stats[1]
             clk == [stats |-> stats.t, perf |-> perf, online |-> online,
                     issue |-> issue, score |-> score]
             performance == get_agent_performance(jobs, agent.agent_id, perf,
                                                  frame[p].days)
         IN frame' = [frame EXCEPT ![p].pc = "report_loop",
                                   ![p].entries =
                                       Append(@, agent_health(agent, stats, performance, clk)),
                                   ![p].stats = <<>>,
                                   ![p].t = score]
    /\ UNCHANGED <<now, storeVars, ret, evalVars>>

\* ------------------------------------------------------------------ tips
\* TIPS_DATABASE: each rule by its id, category, metric conditions and the
\* priorities of its solutions, in the order of the source.  A duration such
\* as "1h" is written <<1, "h">>.
TIPS_DATABASE ==
    << [id |-> "backup_slow_performance", category |-> "agent",
        metrics |-> << [name |-> "avg_duration_seconds", operator |-> ">", value |-> 3600],
                       [name |-> "success_rate", operator |-> "<", value |-> 90] >>,
        solutions |-> <<"high", "medium", "medium">>],
       [id |-> "backup_high_failure_rate", category |-> "agent",
        metrics |-> << [name |-> "success_rate", operator |-> "<", value |-> 80],
                       [name |-> "failed_backups", operator |-> ">", value |-> 3] >>,
        solutions |-> <<"critical", "high", "critical">>],
       [id |-> "agent_offline", category |-> "agent",
        metrics |-> << [name |-> "status", operator |-> "==", value |-> "offline"],
                       [name |-> "last_seen", operator |-> "<", value |-> <<1, "h">>] >>,
        solutions |-> <<"critical", "high", "high">>],
       [id |-> "storage_low_space", category |-> "system",
        metrics |-> << [name |-> "storage_usage_percent", operator |-> ">", value |-> 90] >>,
        solutions |-> <<"critical", "high", "medium">>] >>

\* The order in which str compares the priority words (by their letters).
LexRank == [critical |-> 1, high |-> 2, low |-> 3, medium |-> 4]

\* max(sol["priority"] for sol in solutions): the greatest string.
RECURSIVE max_priority(_)
max_priority(priorities) ==
    IF Len(priorities) = 1 THEN priorities[1]
    ELSE LET m == max_priority(Tail(priorities)) IN
         IF LexRank[Head(priorities)] >= LexRank[m] THEN Head(priorities) ELSE m

\* The duration of a last_seen condition, a string written <<number, suffix>>
\* ("1h" is <<1, "h">>, "3600" is <<3600, "">>): float(duration_str[:-1]) *
\* 3600 for a string ending in "h", * 60 for one ending in "m", and
\* float(duration_str) otherwise, which raises ValueError unless the whole
\* string is a number.
duration_seconds(value) ==
    IF value[2] = "h" THEN [exc |-> "none", seconds |-> value[1] * 3600]
    ELSE IF value[2] = "m" THEN [exc |-> "none", seconds |-> value[1] * 60]
    ELSE IF value[2] = "" THEN [exc |-> "none", seconds |-> value[1]]
    ELSE [exc |-> "ValueError", seconds |-> 0]

\* Rates and durations are kept in hundredths; counts are not.
MetricScale == [success_rate |-> 100, avg_duration_seconds |-> 100,
                failed_backups |-> 1, total_backups |-> 1, offline_duration |-> 1]

\* One metric condition of a rule against the metrics, for a metric the
\* agent has and a duration that parsed: whether the body of the inner loop
\* leaves `matches` as it is.  The clock of a last_seen condition is read at t.
condition_holds(c, metrics, t) ==
    IF c.name = "last_seen"
    THEN LET actual_value == (t - metrics.last_seen) * 60
             seconds == duration_seconds(c.value).seconds IN
         IF c.operator = "<" THEN ~(actual_value >= seconds)
         ELSE IF c.operator = ">" THEN ~(actual_value <= seconds)
         ELSE TRUE
    ELSE IF c.name = "status"
    THEN IF c.operator = "==" THEN metrics.status = c.value
         ELSE IF c.operator = "!=" THEN metrics.status # c.value
         ELSE TRUE
    ELSE LET metric_value == metrics[c.name]
             value == c.value * MetricScale[c.name] IN
         IF c.operator = ">" THEN ~(metric_value <= value)
         ELSE IF c.operator = "<" THEN ~(metric_value >= value)
         ELSE IF c.operator = "==" THEN metric_value = value
         ELSE TRUE

Matches_last(matches, holds) == holds

\* `matches` after a condition: a condition that fails sets it to False and
\* none sets it back to True.
Matches(matches, holds) == IF holds THEN matches ELSE FALSE

\* The metrics analyze_agent_health prepares from the results of
\* get_agent_stats and get_agent_performance; offline_duration, a metric only
\* an offline agent has, is taken with the clock read at t.  (isoformat /
\* fromisoformat give back the same instant.)
agent_metrics(agent_stats0, agent_performance, t) ==
    IF agent_stats0.status = "offline"
    THEN [success_rate |-> agent_performance.success_rate,
          avg_duration_seconds |-> agent_performance.avg_duration,
          failed_backups |-> agent_stats0.failed_backups,
          total_backups |-> agent_stats0.total_backups,
          status |-> agent_stats0.status,
          last_seen |-> agent_stats0.last_seen,
          offline_duration |-> (t - agent_stats0.last_seen) * 60]
    ELSE [success_rate |-> agent_performance.success_rate,
          avg_duration_seconds |-> agent_performance.avg_duration,
          failed_backups |-> agent_stats0.failed_backups,
          total_backups |-> agent_stats0.total_backups,
          status |-> agent_stats0.status,
          last_seen |-> agent_stats0.last_seen]

\* The tip appended for a rule that matched.
applicable_tip(tip, agent_id) ==
    [id |-> tip.id,
     solutions |-> tip.solutions,
     priority |-> max_priority(tip.solutions),
     agent_id |-> agent_id]

\* The tips databases analyze_agent_health is run over: TIPS_DATABASE (0) or
\* the n-th of RuleSamples.  The conditions of a rule are the items of a dict
\* keyed by the name of the metric, so a rule has one condition per metric.
\* The durations of the last two samples are the strings "10m", "3600s" (no
\* number), "3600" (seconds) and "2h".
RuleSamples ==
    << TIPS_DATABASE,
       << [id |-> "needs_storage", category |-> "agent",
           metrics |-> << [name |-> "storage_usage_percent", operator |-> ">", value |-> 90] >>,
           solutions |-> <<"low">>] >>,
       << [id |-> "offline_long", category |-> "agent",
           metrics |-> << [name |-> "status", operator |-> "==", value |-> "offline"],
                          [name |-> "offline_duration", operator |-> ">", value |-> 3600] >>,
           solutions |-> <<"low">>],
          [id |-> "long_silence", category |-> "agent",
           metrics |-> << [name |-> "offline_duration", operator |-> ">", value |-> 900] >>,
           solutions |-> <<"low">>] >>,
       << [id |-> "failing_and_storage", category |-> "agent",
           metrics |-> << [name |-> "success_rate", operator |-> "<", value |-> 80],
                          [name |-> "storage_usage_percent", operator |-> ">", value |-> 90] >>,
           solutions |-> <<"low">>],
          [id |-> "system_failing", category |-> "system",
           metrics |-> << [name |-> "success_rate", operator |-> "<", value |-> 80] >>,
           solutions |-> <<"low">>] >>,
       << [id |-> "idle_online", category |-> "agent",
           metrics |-> << [name |-> "status", operator |-> "!=", value |-> "offline"],
                          [name |-> "total_backups", operator |-> "==", value |-> 0],
                          [name |-> "last_seen", operator |-> "<", value |-> <<10, "m">>] >>,
           solutions |-> <<"low">>],
          [id |-> "stale", category |-> "agent",
           metrics |-> << [name |-> "last_seen", operator |-> ">", value |-> <<3600, "s">>],
                          [name |-> "failed_backups", operator |-> ">", value |-> 0] >>,
           solutions |-> <<"medium", "low">>] >>,
       << [id |-> "silent_failing", category |-> "agent",
           metrics |-> << [name |-> "failed_backups", operator |-> ">", value |-> 0],
                          [name |-> "last_seen", operator |-> ">", value |-> <<3600, "">>] >>,
           solutions |-> <<"high", "low">>],
          [id |-> "heard_lately", category |-> "agent",
           metrics |-> << [name |-> "last_seen", operator |-> "<", value |-> <<2, "h">>],
                          [name |-> "status", operator |-> "==", value |-> "offline"] >>,
           solutions |-> <<"low">>],
          [id |-> "never_heard", category |-> "system",
           metrics |-> << [name |-> "last_seen", operator |-> ">", value |-> <<1, "day">>] >>,
           solutions |-> <<"low">>] >> >>

TipsDatabase(n) == IF n = 0 THEN TIPS_DATABASE ELSE RuleSamples[n]

\* analyze_agent_health starts with get_agent_stats, whose agent lookup this
\* is; get_agent_performance is called whether or not the agent was found.
analyze_agent_health_over(p, n, agent_id) ==
    /\ frame[p].pc = "idle"
    /\ LET agent == get_agent(agents, agent_id) IN
       frame' = [frame EXCEPT ![p] =
                   [IdleFrame EXCEPT !.pc = IF agent = 0 THEN "analyze_performance"
                                            ELSE "stats_count",
                                     !.op = "analyze_agent_health",
                                     !.rows = IF agent = 0 THEN <<>> ELSE <<agents[agent]>>,
                                     !.found = IF agent = 0 THEN 0 ELSE 1,
                                     !.agent_id = agent_id, !.t = now,
                                     !.database = n]]
    /\ UNCHANGED <<now, storeVars, ret, evalVars>>

analyze_agent_health(p, agent_id) == analyze_agent_health_over(p, 0, agent_id)

\* get_agent_performance in analyze_agent_health: it reads the clock and
\* queries the jobs.
analyze_performance(p) ==
    /\ frame[p].pc = "analyze_performance"
    /\ \E perf \in ClockReadings(frame[p].t) :
         frame' = [frame EXCEPT ![p].pc = "analyze_metrics", ![p].t = perf,
                                ![p].performance =
                                    <<get_agent_performance(jobs, frame[p].agent_id, perf, 7)>>]
    /\ UNCHANGED <<now, storeVars, ret, evalVars>>

\* What an analysis leaves: the tips it returns or the exception it raises
\* (at the condition `cond` of the rule `rule`), the metrics it prepared and
\* the clock readings it took: those of get_agent_stats, of
\* get_agent_performance and of offline_duration, the reading of each
\* last_seen condition, and the last of these (`rule`).
AnalysisResult(f, exc) ==
    [op |-> IF f.database = 0 THEN "analyze_agent_health" ELSE "analyze_agent_health_over",
     known |-> TRUE, exc |-> exc, database |-> f.database, agent_id |-> f.agent_id,
     metrics |-> f.metrics[1],
     tips |-> IF exc = "none" THEN f.tips ELSE <<>>,
     status |-> f.stats[1].status,
     last_seen |-> f.stats[1].last_seen,
     rule |-> f.rule, cond |-> f.cond,
     clk |-> [stats |-> f.clk[1].stats, perf |-> f.clk[1].perf,
              offline |-> f.clk[1].offline, rule |-> f.t,
              conditions |-> f.readings]]

\* `if not agent_stats or not agent_performance: return []`, and the metrics:
\* the clock is read for the default of last_seen and for offline_duration.
analyze_metrics(p) ==
    /\ frame[p].pc = "analyze_metrics"
    /\ LET f == frame[p] IN
       IF f.stats = <<>>
       THEN /\ out' = [op |-> IF f.database = 0 THEN "analyze_agent_health"
                              ELSE "analyze_agent_health_over",
                       known |-> FALSE, exc |-> "none", database |-> f.database,
                       agent_id |-> f.agent_id, tips |-> <<>>]
            /\ frame' = [frame EXCEPT ![p] = IdleFrame]
       ELSE /\ \E offline \in ClockReadings(f.t) :
                 frame' = [frame EXCEPT
                             ![p].pc = "analyze_rules",
                             ![p].metrics =
                                 <<agent_metrics(f.stats[1], f.performance[1], offline)>>,
                             ![p].clk = <<[stats |-> f.stats[1].t, perf |-> f.t,
                                           offline |-> offline]>>,
                             ![p].t = offline,
                             ![p].rule = 1, ![p].tips = <<>>, ![p].readings = <<>>]
            /\ out' = out
    /\ UNCHANGED <<now, storeVars, ret, client, scheduler>>

\* The head of the rule loop: the tips are returned after the last rule, a
\* rule of another category is passed over, and for a rule of category
\* agent `matches` is set and its conditions are gone through.
analyze_rules(p) ==
    /\ frame[p].pc = "analyze_rules"
    /\ LET f == frame[p]
           tips_database == TipsDatabase(f.database) IN
       IF f.rule > Len(tips_database)
       THEN /\ out' = AnalysisResult(f, "none")
            /\ frame' = [frame EXCEPT ![p] = IdleFrame]
       ELSE /\ out' = out
            /\ frame' = IF tips_database[f.rule].category # "agent"
                        THEN [frame EXCEPT ![p].rule = f.rule + 1]
                        ELSE [frame EXCEPT ![p].pc = "analyze_condition",
                                           ![p].cond = 1, ![p].matches = TRUE]
    /\ UNCHANGED <<now, storeVars, ret, client, scheduler>>

\* One pass of the loop over the conditions of a rule.  A metric the agent
\* lacks sets matches = False and leaves the loop; the duration of a
\* last_seen condition is parsed (a ValueError ends the analysis, nothing
\* catches it) and the clock read; every other condition is evaluated on
\* the metric, whatever the earlier conditions gave.  After the last
\* condition the tip is appended when `matches` still holds.
analyze_condition(p) ==
    /\ frame[p].pc = "analyze_condition"
    /\ LET f == frame[p]
           tip == TipsDatabase(f.database)[f.rule]
           metrics == f.metrics[1] IN
       IF f.cond > Len(tip.metrics)
       THEN /\ frame' = [frame EXCEPT
                           ![p].pc = "analyze_rules",
                           ![p].rule = f.rule + 1,
                           ![p].cond = 0,
                           ![p].matches = TRUE,
                           ![p].tips = IF f.matches
                                       THEN Append(@, applicable_tip(tip, f.agent_id))
                                       ELSE @]
            /\ out' = out
       ELSE LET c == tip.metrics[f.cond] IN
            IF c.name \notin DOMAIN metrics
            THEN /\ frame' = [frame EXCEPT ![p].matches = FALSE,
                                            ![p].cond = Len(tip.metrics) + 1]
                 /\ out' = out
            ELSE IF c.name = "last_seen"
            THEN IF duration_seconds(c.value).exc # "none"
                 THEN /\ out' = AnalysisResult(f, duration_seconds(c.value).exc)
                      /\ frame' = [frame EXCEPT ![p] = IdleFrame]
                 ELSE /\ \E t \in ClockReadings(f.t) :
                           frame' = [frame EXCEPT
                                       ![p].matches =
                                           Matches(f.matches, condition_holds(c, metrics, t)),
                                       ![p].cond = f.cond + 1,
                                       ![p].t = t,
                                       ![p].readings =
                                           Append(@, [rule |-> f.rule, cond |-> f.cond,
                                                      t |-> t])]
                      /\ out' = out
            ELSE /\ frame' = [frame EXCEPT
                                ![p].matches =
                                    Matches(f.matches, condition_holds(c, metrics, f.t)),
                                ![p].cond = f.cond + 1]
                 /\ out' = out
    /\ UNCHANGED <<now, storeVars, ret, client, scheduler>>

\* ------------------------------------------------ check_offline_agents
\* The selection of check_offline_agents, the threshold computed at t.
OfflineSelected(last_seen, t) == last_seen < t - 15

\* check_offline_agents starts: the threshold is computed from the clock.
check_offline_agents(p) ==
    /\ frame[p].pc = "idle"
    /\ Len(events) < MaxAlerts
    /\ frame' = [frame EXCEPT ![p] =
                   [IdleFrame EXCEPT !.pc = "job_query", !.op = "check_offline_agents",
                                     !.t = now,
                                     !.counts = <<Len(events), Len(notifications)>>]]
    /\ UNCHANGED <<now, storeVars, ret, evalVars>>

\* The agents are queried; those last seen before the threshold are kept.
check_offline_agents_query(p) ==
    /\ frame[p].pc = "job_query"
    /\ frame' = [frame EXCEPT ![p].pc = "job_loop",
                              ![p].rows =
                                  SelectSeq(get_agents(agents, 100),
                                      LAMBDA a : OfflineSelected(a.last_seen, frame[p].t))]
    /\ UNCHANGED <<now, storeVars, ret, evalVars>>

\* get_system_overview: the storage usage, in percent of the simulated
\* capacity of 1000 GB.  Job sizes are counted here in units of 10 GiB, so
\* that one unit is one percent.
RECURSIVE SumSize(_)
SumSize(rowsJ) ==
    IF rowsJ = <<>> THEN 0 ELSE Head(rowsJ).size_bytes + SumSize(Tail(rowsJ))

storage_usage_percent(rowsJ) == SumSize(rowsJ)

\* monitor_storage_usage starts with get_system_overview, of which it uses
\* the storage usage (one query, the sum of the job sizes).
monitor_storage_usage(p) ==
    /\ frame[p].pc = "idle"
    /\ Len(events) < MaxAlerts
    /\ frame' = [frame EXCEPT ![p] =
                   [IdleFrame EXCEPT !.pc = "job_alert", !.op = "monitor_storage_usage",
                                     !.found = storage_usage_percent(jobs),
                                     !.counts = <<Len(events), Len(notifications)>>]]
    /\ UNCHANGED <<now, storeVars, ret, evalVars>>

\* The priority of the alert of the storage monitor: above 90 percent
\* critical, above 80 high, otherwise there is none.
storage_priority(usage_percent) ==
    IF usage_percent > 90 THEN "critical"
    ELSE IF usage_percent > 80 THEN "high" ELSE "none"

\* The head of the loop of check_offline_agents, which the storage monitor
\* reaches when its alert is out: the job is over after the last agent.
job_loop(p) ==
    /\ frame[p].pc = "job_loop"
    /\ LET f == frame[p] IN
       IF f.op = "check_offline_agents" /\ f.found < Len(f.rows)
       THEN /\ frame' = [frame EXCEPT ![p].found = f.found + 1, ![p].pc = "job_event"]
            /\ out' = out
       ELSE /\ frame' = [frame EXCEPT ![p] = IdleFrame]
            /\ out' = JobResult(f, "none")
    /\ UNCHANGED <<now, storeVars, ret, client, scheduler>>

\* The storage monitor decides on its alert.
job_alert(p) ==
    /\ frame[p].pc = "job_alert"
    /\ IF storage_priority(frame[p].found) = "none"
       THEN /\ frame' = [frame EXCEPT ![p] = IdleFrame]
            /\ out' = JobResult(frame[p], "none")
       ELSE /\ frame' = [frame EXCEPT ![p].pc = "job_event"]
            /\ out' = out
    /\ UNCHANGED <<now, storeVars, ret, client, scheduler>>

\* The job calls events.create_event.
job_event(p) ==
    /\ frame[p].pc = "job_event"
    /\ LET f == frame[p] IN
       IF f.op = "check_offline_agents"
       THEN create_event_call(p, f, "agent", "offline", f.rows[f.found].agent_id, 0,
                              FALSE, "high")
       ELSE create_event_call(p, f, "system", "warning", 0, 0, FALSE,
                              storage_priority(f.found))
    /\ UNCHANGED <<now, agents, configs, jobs, notifications, emails, client, scheduler>>

\* The job calls notifications.send_notification.
job_notify(p) ==
    /\ frame[p].pc = "job_notify"
    /\ LET f == [frame[p] EXCEPT !.call = "send_notification"] IN
       IF f.op = "check_offline_agents"
       THEN notification_commit(p, f,
                Notification(<<"Agente Offline", f.rows[f.found].hostname>>, "agent",
                             "high", f.rows[f.found].agent_id))
       ELSE notification_commit(p, f,
                Notification(IF storage_priority(f.found) = "critical"
                             THEN <<"ALERTA CRITICO: Storage Quase Cheio">>
                             ELSE <<"Aviso: Storage Acima de 80%">>,
                             "system", storage_priority(f.found), 0))
    /\ UNCHANGED <<now, agents, configs, jobs, events, emails, client, scheduler>>

\* ------------------------------------------------ generate_daily_report
\* JobWindow(rowsJ, start_date): the jobs generate_backup_report selects.
JobWindow(rowsJ, start_date) == SelectSeq(rowsJ, LAMBDA j : j.start_time >= start_date)

\* generate_daily_report starts with generate_backup_report(db, days=1),
\* which computes its start date from the clock.
generate_daily_report(p) ==
    /\ frame[p].pc = "idle"
    /\ Len(notifications) < MaxNotes
    /\ frame' = [frame EXCEPT ![p] =
                   [IdleFrame EXCEPT !.pc = "daily_backup_report",
                                     !.op = "generate_daily_report",
                                     !.t = now, !.days = 1]]
    /\ UNCHANGED <<now, storeVars, ret, evalVars>>

\* generate_backup_report queries the jobs of the window and returns None
\* for none, a report otherwise; the job only prints on a report.  It goes
\* on to generate_agent_health_report(db, days=1).
generate_backup_report(p) ==
    /\ frame[p].pc = "daily_backup_report"
    /\ frame' = [frame EXCEPT ![p].pc = "daily_health_report",
                              ![p].found =
                                  Len(JobWindow(jobs, frame[p].t
                                                      - frame[p].days * MinutesPerDay))]
    /\ UNCHANGED <<now, storeVars, ret, evalVars>>

\* generate_agent_health_report as the job calls it: it starts with
\* get_agents and runs its loop.
daily_health_report(p) ==
    /\ frame[p].pc = "daily_health_report"
    /\ \E t \in ClockReadings(frame[p].t) :
         frame' = [frame EXCEPT ![p].pc = "report_loop",
                                ![p].rows = get_agents(agents, 100),
                                ![p].found = 0,
                                ![p].t = t]
    /\ UNCHANGED <<now, storeVars, ret, evalVars>>

\* The job calls send_notification for the reports it generated.
daily_notify(p) ==
    /\ frame[p].pc = "daily_notify"
    /\ notification_commit(p, [frame[p] EXCEPT !.call = "send_notification"],
                           Notification(<<"Relatorio Diario Gerado">>, "system", "low", 0))
    /\ UNCHANGED <<now, agents, configs, jobs, events, emails, client, scheduler>>

\* The handler of the job: send_notification for the error, outside any
\* try, so that what it raises leaves the job.
daily_error(p) ==
    /\ frame[p].pc = "daily_error"
    /\ notification_commit(p, [frame[p] EXCEPT !.call = "send_notification"],
                           Notification(<<"Erro ao Gerar Relatorio">>, "system", "high", 0))
    /\ UNCHANGED <<now, agents, configs, jobs, events, emails, client, scheduler>>

\* ------------------------------------------------------ SystemScheduler
\* The BackgroundScheduler the object owns.  While it is stopped, add_job
\* appends to the pending jobs and remove_job searches only the pending jobs;
\* while it runs, both act on the job store, which refuses an id it holds.
\* start() moves the pending jobs to the store; shutdown() stops and empties
\* the in-memory store.  Each returns the object with `call.exc` set.
Raise(s, exc) == [s EXCEPT !.call.exc = exc]

RemoveFirst(seq, id) ==
    LET i == CHOOSE k \in 1..Len(seq) :
                 seq[k] = id /\ \A m \in 1..(k - 1) : seq[m] # id
    IN SubSeq(seq, 1, i - 1) \o SubSeq(seq, i + 1, Len(seq))

InSeq(seq, id) == \E k \in 1..Len(seq) : seq[k] = id

scheduler_remove_job(s, id) ==
    IF s.state = "stopped"
    THEN IF InSeq(s.pending, id)
         THEN [s EXCEPT !.pending = RemoveFirst(@, id)]
         ELSE Raise(s, "JobLookupError")
    ELSE IF id \in s.stored
         THEN [s EXCEPT !.stored = @ \ {id}]
         ELSE Raise(s, "JobLookupError")

scheduler_add_job(s, id) ==
    IF s.state = "stopped"
    THEN [s EXCEPT !.pending = Append(@, id)]
    ELSE IF id \in s.stored
         THEN Raise(s, "ConflictingIdError")
         ELSE [s EXCEPT !.stored = @ \cup {id}]

scheduler_start(s) ==
    [s EXCEPT !.state = "running",
              !.stored = @ \cup {s.pending[k] : k \in 1..Len(s.pending)},
              !.pending = <<>>]

scheduler_shutdown(s) == [s EXCEPT !.state = "stopped", !.stored = {}]

\* self.jobs[id] = job
DictSet(keys, id) == IF InSeq(keys, id) THEN keys ELSE Append(keys, id)

\* SystemScheduler.add_job
add_job_keeps_old(s, id) ==
    LET added == scheduler_add_job(s, id) IN
    IF added.call.exc # "none" THEN added
    ELSE [added EXCEPT !.jobs = DictSet(@, id)]

add_job(s, id) ==
    LET removed == IF InSeq(s.jobs, id) THEN scheduler_remove_job(s, id) ELSE s IN
    IF removed.call.exc # "none" THEN removed
    ELSE LET added == scheduler_add_job(removed, id) IN
         IF added.call.exc # "none" THEN added
         ELSE [added EXCEPT !.jobs = DictSet(@, id)]

\* SystemScheduler.remove_job
remove_job(s, id) ==
    IF ~InSeq(s.jobs, id) THEN s
    ELSE LET removed == scheduler_remove_job(s, id) IN
         IF removed.call.exc # "none" THEN removed
         ELSE [removed EXCEPT !.jobs = RemoveFirst(@, id)]

\* The jobs schedule_system_tasks adds, in its order.
SystemTasks ==
    <<"cleanup_events", "daily_report", "check_offline_agents", "monitor_storage",
      "cleanup_notifications">>

RECURSIVE schedule_system_tasks(_, _)
schedule_system_tasks(s, k) ==
    IF k > Len(SystemTasks) THEN s
    ELSE LET added == add_job(s, SystemTasks[k]) IN
         IF added.call.exc # "none" THEN added
         ELSE schedule_system_tasks(added, k + 1)

\* SystemScheduler.start
start(s) ==
    IF s.running THEN s
    ELSE LET scheduled == schedule_system_tasks(s, 1) IN
         IF scheduled.call.exc # "none" THEN scheduled
         ELSE [scheduler_start(scheduled) EXCEPT !.running = TRUE]

\* SystemScheduler.shutdown
shutdown(s) ==
    IF ~s.running THEN s
    ELSE [scheduler_shutdown(s) EXCEPT !.running = FALSE]

Calling(op, id) == [scheduler EXCEPT !.call = [op |-> op, id |-> id, exc |-> "none"]]

call_start ==
    /\ scheduler' = start(Calling("start", ""))
    /\ UNCHANGED <<now, storeVars, frame, ret, out, client>>

call_shutdown ==
    /\ scheduler' = shutdown(Calling("shutdown", ""))
    /\ UNCHANGED <<now, storeVars, frame, ret, out, client>>

call_add_job(id) ==
    /\ scheduler' = add_job(Calling("add_job", id), id)
    /\ UNCHANGED <<now, storeVars, frame, ret, out, client>>

call_remove_job(id) ==
    /\ scheduler' = remove_job(Calling("remove_job", id), id)
    /\ UNCHANGED <<now, storeVars, frame, ret, out, client>>

\* ------------------------------------------------------ the agent programs
\* agent.py and backup_agent.py as a machine runs them (`python agent.py`,
\* `python backup_agent.py`): the configuration file holds the agent_id the
\* program starts with.  The server is reachable; a request is served by a
\* worker that is free, and an answer is read by the thread that waits for
\* it before the next answer is written.
Impls == {"agent.py", "backup_agent.py"}

\* The routes of the server: the status each answers with.
heartbeat_status(ok) == IF ok THEN 200 ELSE 404
register_status(ok) == IF ok THEN 200 ELSE 500

\* The server workers no thread of the program waits for.
FreeWorkers == {p \in Procs : client.conn[p] = "none"}

\* BackupAgent().  The constructor of backup_agent.py calls load_config
\* before it sets self.logger, and load_config logs on every path: it raises
\* AttributeError and the program has no agent.  That of agent.py sets up
\* logging first and loads the file.
BackupAgent ==
    /\ client.pc = "new"
    /\ client' = [client EXCEPT !.pc = IF client.impl = "backup_agent.py"
                                      THEN "AttributeError" ELSE "start"]
    /\ UNCHANGED <<now, storeVars, frame, ret, out, scheduler>>

\* start() of agent.py: the heartbeat thread is started, then the main
\* thread goes on to register_with_server.
client_start ==
    /\ client.pc = "start"
    /\ client' = [client EXCEPT !.pc = "reg", !.hb = "check"]
    /\ UNCHANGED <<now, storeVars, frame, ret, out, scheduler>>

\* POST /api/register on the local web server, which start() runs after its
\* registration: each request is handled in a thread of its own
\* (threaded=True) and calls register_with_server, under no lock.
api_register ==
    /\ client.pc = "serving"
    /\ client.api + Cardinality({p \in Procs : client.conn[p] = "api"}) < MaxRequests
    /\ client' = [client EXCEPT !.api = @ + 1]
    /\ UNCHANGED <<now, storeVars, frame, ret, out, scheduler>>

\* register_with_server, called by start() or by api_register, sends POST
\* /register.
register_with_server_post(thread) ==
    /\ IF thread = "main" THEN client.pc = "reg" ELSE client.api > 0
    /\ \E p \in FreeWorkers :
         client' = IF thread = "main"
                   THEN [client EXCEPT !.conn[p] = thread, !.pc = "wait"]
                   ELSE [client EXCEPT !.conn[p] = thread, !.api = @ - 1]
    /\ UNCHANGED <<now, storeVars, frame, ret, out, scheduler>>

\* POST /register reaches the server.
register_request(p) ==
    /\ client.conn[p] \in {"main", "api"}
    /\ ret = NoRet
    /\ create_agent_lookup(p, "db01")

\* register_with_server reads the answer: on 200 the agent_id of the answer
\* is put in the configuration and saved.  start() then runs the local web
\* server; a request to it returns.
register_with_server(status, current, answered) ==
    IF status = 200 THEN answered ELSE current

register_response(p) ==
    /\ client.conn[p] \in {"main", "api"}
    /\ ret.op = "create_agent"
    /\ ret.proc = p
    /\ client' = [client EXCEPT
                    !.agent_id = register_with_server(register_status(ret.ok),
                                                      client.agent_id, ret.agent_id),
                    !.pc = IF client.conn[p] = "main" THEN "serving" ELSE @,
                    !.conn[p] = "none"]
    /\ ret' = NoRet
    /\ UNCHANGED <<now, storeVars, frame, out, scheduler>>

\* The head of the heartbeat loop of agent.py: with an agent_id in the
\* configuration the URL is built from it, without one the loop sleeps.
heartbeat_check ==
    /\ client.hb = "check"
    /\ client' = IF client.agent_id # 0
                 THEN [client EXCEPT !.hb = "post", !.sent = client.agent_id]
                 ELSE [client EXCEPT !.hb = "sleep"]
    /\ UNCHANGED <<now, storeVars, frame, ret, out, scheduler>>

\* The heartbeat loop sends POST /heartbeat/{agent_id}.
heartbeat_post ==
    /\ client.hb = "post"
    /\ \E p \in FreeWorkers :
         client' = [client EXCEPT !.conn[p] = "heartbeat", !.hb = "wait"]
    /\ UNCHANGED <<now, storeVars, frame, ret, out, scheduler>>

\* POST /heartbeat/{agent_id} reaches the server.
heartbeat_request(p) ==
    /\ client.conn[p] = "heartbeat"
    /\ ret = NoRet
    /\ update_agent_heartbeat_lookup(p, client.sent)

\* The heartbeat loop reads the answer: it logs (a warning for any status
\* other than 200) and sleeps.
heartbeat_response(p) ==
    /\ client.conn[p] = "heartbeat"
    /\ ret.op = "update_agent_heartbeat"
    /\ ret.proc = p
    /\ client' = [client EXCEPT !.last = heartbeat_status(ret.ok), !.hb = "sleep",
                                !.conn[p] = "none"]
    /\ ret' = NoRet
    /\ UNCHANGED <<now, storeVars, frame, out, scheduler>>

\* time.sleep(300) returns.
client_wake ==
    /\ client.hb = "sleep"
    /\ client' = [client EXCEPT !.hb = "check"]
    /\ UNCHANGED <<now, storeVars, frame, ret, out, scheduler>>

\* ------------------------------------------------------------------ clock
Tick ==
    /\ now < MaxTime
    /\ now' = now + 1
    /\ UNCHANGED <<storeVars, frame, ret, evalVars>>

\* ------------------------------------------------------------ specifications
Init ==
    /\ now = 0
    /\ agents = <<>>
    /\ configs = <<>>
    /\ jobs = <<>>
    /\ events = <<>>
    /\ notifications = <<>>
    /\ emails = <<>>
    /\ frame = [p \in Procs |-> IdleFrame]
    /\ ret = NoRet
    /\ out = NoOut
    /\ client = NoClient
    /\ scheduler = SystemScheduler

Register(p, hostnames) ==
    \/ \E h \in hostnames : create_agent_lookup(p, h)
    \/ create_agent_touch(p)
    \/ create_agent_update_commit(p)
    \/ create_agent_update_refresh(p)
    \/ create_agent_new(p)
    \/ create_agent_insert_commit(p)
    \/ create_agent_insert_refresh(p)
    \/ create_default_config(p)
    \/ create_agent_return(p)

Heartbeat(p) ==
    \/ \E id \in IdPool \cup {UnknownId} : update_agent_heartbeat_lookup(p, id)
    \/ update_agent_heartbeat_touch(p)
    \/ update_agent_heartbeat_commit(p)

\* Requests served concurrently by the worker threads.
Next == (\E p \in Procs : Register(p, {"db01"}) \/ Heartbeat(p)) \/ Tick

Spec == Init /\ [][Next]_vars

\* Requests served one at a time (a single worker).
SeqNext == Register(1, Hostnames) \/ Heartbeat(1) \/ Tick

SeqSpec == Init /\ [][SeqNext]_vars

\* The job ledger: agents register and report jobs, one request at a time.
LedgerNext ==
    \/ Register(1, {"db01"})
    \/ \E id \in {1, UnknownId}, st \in JobStatuses, sz \in JobSizes,
          t0 \in JobTimes, t1 \in JobTimes \cup {NoTime} :
          report_backup(1, id, st, sz, t0, t1)
    \/ report_backup_refresh(1)

LedgerSpec == Init /\ [][LedgerNext]_vars

\* The event engine: create_event called with arguments of every shape, for
\* an agent or with a related_id, until a call raises.
EventNext ==
    \/ /\ ret.exc = "none"
       /\ \E c \in Categories \cup {"bogus"}, e \in EventTypes \cup {"unknown_type"},
             pr \in Priorities \cup {"urgent"}, ids \in {<<1, 0>>, <<0, UnknownId>>},
             details \in BOOLEAN :
             create_event(1, c, e, ids[1], ids[2], details, pr)
    \/ create_event_refresh(1)
    \/ send_event_notification(1)
    \/ send_notification_refresh(1)
    \/ send_notification_email(1)

EventSpec == Init /\ [][EventNext]_vars

\* The evaluator: one registered agent of any age with any small job history,
\* evaluated by the statistics, the health report and the offline check.
HealthNow == 2 * 7 * MinutesPerDay

Ages == {0, 14, 15, 16, 60, 61, HealthNow}

\* Job histories are drawn as lists of these kinds of job, in this order
\* (the evaluation does not depend on the order of the rows).
HealthJobKinds ==
    LET job(st, back, len) ==
            BackupJob(1, st, 1, HealthNow - back,
                      IF len = NoTime THEN NoTime ELSE HealthNow - back + len)
        inside == 10
        outside == 7 * MinutesPerDay + 1
    IN << job("success", inside, 5),  job("success", inside, NoTime),
          job("success", outside, 5), job("failed", inside, 5),
          job("failed", inside, NoTime), job("failed", outside, 5),
          job("running", inside, NoTime), job("running", 7 * MinutesPerDay, 8),
          job("warning", inside, 5), job("failed", 100, 90) >>

HealthHistories ==
    UNION {{[i \in 1..n |-> HealthJobKinds[k[i]]] :
              k \in {f \in [1..n -> 1..Len(HealthJobKinds)] :
                        \A i \in 1..n, j \in 1..n : i < j => f[i] <= f[j]}}
           : n \in 0..MaxHealthJobs}

HealthInit ==
    /\ now = HealthNow
    /\ \E age \in Ages : agents = <<NewAgent("db01", 1, HealthNow - age)>>
    /\ configs = <<AgentConfig(1, default_config)>>
    /\ jobs \in HealthHistories
    /\ events = <<>>
    /\ notifications = <<>>
    /\ emails = <<>>
    /\ frame = [p \in Procs |-> IdleFrame]
    /\ ret = NoRet
    /\ out = NoOut
    /\ client = NoClient
    /\ scheduler = SystemScheduler

\* Each behaviour holds one evaluation: a call of get_agent_stats or of
\* analyze_agent_health, a health report or a run of the offline check.
HealthNext ==
    \/ (out = NoOut /\ \E id \in {1, UnknownId} : get_agent_stats_lookup(1, id))
    \/ (out = NoOut /\ \E id \in {1, UnknownId} : analyze_agent_health(1, id))
    \/ (out = NoOut /\ generate_agent_health_report(1, 7))
    \/ report_loop(1)
    \/ get_agent_stats_count(1)
    \/ get_agent_stats_return(1)
    \/ report_performance(1)
    \/ analyze_performance(1)
    \/ analyze_metrics(1)
    \/ analyze_rules(1)
    \/ analyze_condition(1)
    \/ (out = NoOut /\ events = <<>> /\ check_offline_agents(1))
    \/ check_offline_agents_query(1)
    \/ job_loop(1)
    \/ job_event(1)
    \/ job_notify(1)
    \/ create_event_refresh(1)
    \/ send_event_notification(1)
    \/ send_notification_refresh(1)
    \/ send_notification_email(1)

HealthSpec == HealthInit /\ [][HealthNext]_vars

\* The interval of the check_offline_agents job (15 minutes) elapses.
check_offline_interval == 15

interval_elapses ==
    /\ now < HealthNow + MaxTicks * check_offline_interval
    /\ now' = now + check_offline_interval
    /\ UNCHANGED <<storeVars, frame, ret, evalVars>>

\* The scheduler: the offline check fires every 15 minutes over a registry
\* of two agents from which no heartbeat and no job report arrives.
SchedulerAges == {0, 15, 16}

SchedulerInit ==
    /\ now = HealthNow
    /\ \E a1 \in SchedulerAges, a2 \in SchedulerAges :
          agents = <<NewAgent("db01", 1, HealthNow - a1),
                     NewAgent("db02", 2, HealthNow - a2)>>
    /\ configs = <<AgentConfig(1, default_config), AgentConfig(2, default_config)>>
    /\ jobs = <<>>
    /\ events = <<>>
    /\ notifications = <<>>
    /\ emails = <<>>
    /\ frame = [p \in Procs |-> IdleFrame]
    /\ ret = NoRet
    /\ out = NoOut
    /\ client = NoClient
    /\ scheduler = SystemScheduler

\* The job runs once per interval on worker 1, while worker 2 serves
\* requests that send a notification of low priority.
SchedulerNext ==
    \/ ((IF out.op = "check_offline_agents" THEN out.t < now ELSE TRUE)
          /\ check_offline_agents(1))
    \/ check_offline_agents_query(1)
    \/ job_loop(1)
    \/ job_event(1)
    \/ job_notify(1)
    \/ create_event_refresh(1)
    \/ send_event_notification(1)
    \/ \E p \in Procs : send_notification_refresh(p)
    \/ send_notification_email(1)
    \/ notify(2, "system", "low")
    \/ interval_elapses

SchedulerSpec == SchedulerInit /\ [][SchedulerNext]_vars

\* Configuration management: an agent registers and its configuration is
\* replaced, directly or through update_agent, by worker 1, while worker 2
\* replaces configurations too.
Configs ==
    {<<>>,
     << <<"server_url", "http://srv">>, <<"heartbeat_interval", 30>> >>,
     << <<"heartbeat_interval", 30>>, <<"server_url", "http://srv">> >>,
     << <<"heartbeat_interval", 60>> >>}

\* Callers present the agent_id of a registered agent or one never issued.
IssuedIds == {agents[i].agent_id : i \in 1..Len(agents)}

ConfigSteps(p) ==
    \/ update_agent_config_query(p)
    \/ update_agent_config_agent(p)
    \/ update_agent_config_commit(p)
    \/ update_agent_commit(p)
    \/ update_agent_refresh(p)

ConfigNext ==
    \/ Register(1, {"db01"})
    \/ \E id \in IssuedIds \cup {UnknownId}, c \in Configs : update_agent_config(1, id, c)
    \/ \E id \in IssuedIds \cup {UnknownId}, en \in BOOLEAN, has \in BOOLEAN, c \in Configs :
          update_agent(1, id, en, has, c)
    \/ \E id \in IssuedIds : update_agent_config(2, id, << <<"heartbeat_interval", 60>> >>)
    \/ \E p \in Procs : ConfigSteps(p)

ConfigSpec == Init /\ [][ConfigNext]_vars

\* An agent program and the server: the program is run with a configuration
\* file that holds no agent_id or one the server does not know, and the
\* server serves its requests.
ClientInit ==
    /\ now = 0
    /\ agents = <<>>
    /\ configs = <<>>
    /\ jobs = <<>>
    /\ events = <<>>
    /\ notifications = <<>>
    /\ emails = <<>>
    /\ frame = [p \in Procs |-> IdleFrame]
    /\ ret = NoRet
    /\ out = NoOut
    /\ \E impl \in Impls, id \in {0, UnknownId} :
          client = [NoClient EXCEPT !.impl = impl, !.agent_id = id, !.pc = "new"]
    /\ scheduler = SystemScheduler

\* A server worker goes on with the registration or with the heartbeat it is
\* serving.
RegisterSteps(p) ==
    \/ (ret = NoRet /\ create_agent_touch(p))
    \/ (ret = NoRet /\ create_agent_update_commit(p))
    \/ (ret = NoRet /\ create_agent_update_refresh(p))
    \/ (ret = NoRet /\ create_agent_new(p))
    \/ (ret = NoRet /\ create_agent_insert_commit(p))
    \/ (ret = NoRet /\ create_agent_insert_refresh(p))
    \/ (ret = NoRet /\ create_default_config(p))
    \/ (ret = NoRet /\ create_agent_return(p))

HeartbeatServerSteps(p) ==
    \/ (ret = NoRet /\ update_agent_heartbeat_touch(p))
    \/ (ret = NoRet /\ update_agent_heartbeat_commit(p))

WorkerSteps(p) ==
    \/ register_request(p)
    \/ heartbeat_request(p)
    \/ RegisterSteps(p)
    \/ HeartbeatServerSteps(p)

\* The main thread of the program, the threads of its web server and its
\* heartbeat thread.
MainSteps ==
    \/ BackupAgent
    \/ client_start
    \/ register_with_server_post("main")
    \/ \E p \in Procs : client.conn[p] = "main" /\ register_response(p)

ApiSteps ==
    \/ register_with_server_post("api")
    \/ \E p \in Procs : client.conn[p] = "api" /\ register_response(p)

HeartbeatSteps ==
    \/ heartbeat_check
    \/ heartbeat_post
    \/ \E p \in Procs : heartbeat_response(p)
    \/ client_wake

ClientNext ==
    \/ MainSteps
    \/ ApiSteps
    \/ HeartbeatSteps
    \/ api_register
    \/ \E p \in Procs : WorkerSteps(p)
    \/ Tick

\* A commit of worker p that the store accepts.
Stored(p) ==
    \/ (ret = NoRet /\ create_agent_update_commit(p) /\ frame'[p].pc = "reg_update_refresh")
    \/ (ret = NoRet /\ create_agent_insert_commit(p) /\ frame'[p].pc = "reg_insert_refresh")
    \/ (ret = NoRet /\ create_default_config(p) /\ frame'[p].pc = "reg_return")
    \/ (ret = NoRet /\ update_agent_heartbeat_commit(p) /\ ret'.ok)

\* The threads of the program keep running and each server worker goes on
\* with the request it is serving (a step that waits for an answer to be
\* read, or for a free worker, is taken once it can be), and a store that is
\* asked again and again does not refuse every commit.  Nothing makes anyone
\* post to /api/register.
ClientFairness ==
    /\ SF_vars(MainSteps)
    /\ SF_vars(ApiSteps)
    /\ SF_vars(HeartbeatSteps)
    /\ \A p \in Procs : SF_vars(WorkerSteps(p)) /\ SF_vars(Stored(p))

ClientSpec == ClientInit /\ [][ClientNext]_vars /\ ClientFairness

\* Health scoring: two agents last seen at the same time, the first with so
\* many successes and so many failures in the last week and the second with
\* no job, scored by the health report.  25 successes of 32 jobs are a rate
\* of 78.125, which is rounded to the even hundredth 78.12.
ScoreTallies ==
    {<<0, 0>>, <<1, 0>>, <<0, 1>>, <<7, 3>>, <<8, 2>>, <<6, 4>>, <<3, 4>>, <<0, 7>>,
     <<25, 7>>}

Tally(successes, failures) ==
    [i \in 1..(successes + failures) |->
        BackupJob(1, IF i <= successes THEN "success" ELSE "failed", 1,
                  HealthNow - 60 - i, HealthNow - 60)]

ScoreInit ==
    /\ now = HealthNow
    /\ \E age \in Ages : agents = <<NewAgent("db01", 1, HealthNow - age),
                                     NewAgent("db02", 2, HealthNow - age)>>
    /\ configs = <<AgentConfig(1, default_config), AgentConfig(2, default_config)>>
    /\ \E tally \in ScoreTallies : jobs = Tally(tally[1], tally[2])
    /\ events = <<>>
    /\ notifications = <<>>
    /\ emails = <<>>
    /\ frame = [p \in Procs |-> IdleFrame]
    /\ ret = NoRet
    /\ out = NoOut
    /\ client = NoClient
    /\ scheduler = SystemScheduler

ScoreNext ==
    \/ generate_agent_health_report(1, 7)
    \/ report_loop(1)
    \/ get_agent_stats_count(1)
    \/ get_agent_stats_return(1)
    \/ report_performance(1)

ScoreSpec == ScoreInit /\ [][ScoreNext]_vars

\* Rule evaluation: the agent of the evaluator analysed over each of the
\* sample databases.
\* Each behaviour holds one analysis.
RuleNext ==
    \/ /\ out = NoOut
       /\ \E n \in 1..Len(RuleSamples), id \in {1, UnknownId} :
             analyze_agent_health_over(1, n, id)
    \/ get_agent_stats_count(1)
    \/ get_agent_stats_return(1)
    \/ analyze_performance(1)
    \/ analyze_metrics(1)
    \/ analyze_rules(1)
    \/ analyze_condition(1)

\* The agents of the evaluator, with histories of at most two jobs.
RuleInit ==
    /\ now = HealthNow
    /\ \E age \in Ages : agents = <<NewAgent("db01", 1, HealthNow - age)>>
    /\ configs = <<AgentConfig(1, default_config)>>
    /\ jobs \in {h \in HealthHistories : Len(h) <= 2}
    /\ events = <<>>
    /\ notifications = <<>>
    /\ emails = <<>>
    /\ frame = [p \in Procs |-> IdleFrame]
    /\ ret = NoRet
    /\ out = NoOut
    /\ client = NoClient
    /\ scheduler = SystemScheduler

RuleSpec == RuleInit /\ [][RuleNext]_vars

\* Statistics under load: worker 1 computes the statistics or the health
\* report of the registered agent while worker 2 commits its job reports.
StatsInit ==
    /\ now = 0
    /\ agents = <<NewAgent("db01", 1, 0)>>
    /\ configs = <<AgentConfig(1, default_config)>>
    /\ jobs = <<>>
    /\ events = <<>>
    /\ notifications = <<>>
    /\ emails = <<>>
    /\ frame = [p \in Procs |-> IdleFrame]
    /\ ret = NoRet
    /\ out = NoOut
    /\ client = NoClient
    /\ scheduler = SystemScheduler

StatsNext ==
    \/ \E id \in {1, UnknownId} : get_agent_stats_lookup(1, id)
    \/ generate_agent_health_report(1, 7)
    \/ report_loop(1)
    \/ get_agent_stats_count(1)
    \/ get_agent_stats_return(1)
    \/ report_performance(1)
    \/ \E st \in {"running", "success", "failed"} : report_backup(2, 1, st, 1, 0, NoTime)
    \/ report_backup_refresh(2)

StatsSpec == StatsInit /\ [][StatsNext]_vars

\* The storage monitor: backups of several sizes are reported by worker 1
\* while worker 2 runs the monitor job.
StorageSizes == {10, 40, 41, 45, 50}

StorageNext ==
    \/ \E sz \in StorageSizes : report_backup(1, 1, "success", sz, 0, 1)
    \/ report_backup_refresh(1)
    \/ monitor_storage_usage(2)
    \/ job_alert(2)
    \/ job_event(2)

StorageSpec == StatsInit /\ [][StorageNext]_vars

\* The scheduler object: any sequence of start, shutdown, add_job and
\* remove_job calls, for the ids of two system jobs and of one other job.
LifecycleIds == {"daily_report", "monitor_storage", "custom"}

LifecycleNext ==
    \/ call_start
    \/ call_shutdown
    \/ \E id \in LifecycleIds : call_add_job(id)
    \/ \E id \in LifecycleIds : call_remove_job(id)

LifecycleSpec == Init /\ [][LifecycleNext]_vars

\* The notification centre: worker 1 creates events of every priority while
\* worker 2 sends notifications of every priority directly and runs the
\* daily report, over a registry of one agent.
NotifyNext ==
    \/ \E pr \in Priorities : create_event(1, "system", "startup", 0, 0, FALSE, pr)
    \/ \E pr \in Priorities : notify(2, "system", pr)
    \/ \E p \in Procs : create_event_refresh(p)
    \/ \E p \in Procs : send_event_notification(p)
    \/ \E p \in Procs : send_notification_refresh(p)
    \/ \E p \in Procs : send_notification_email(p)
    \/ (out = NoOut /\ generate_daily_report(2))
    \/ generate_backup_report(2)
    \/ daily_health_report(2)
    \/ report_loop(2)
    \/ get_agent_stats_count(2)
    \/ get_agent_stats_return(2)
    \/ report_performance(2)
    \/ daily_notify(2)
    \/ daily_error(2)

NotifySpec == StatsInit /\ [][NotifyNext]_vars

\* -------------------------------------------------------------- properties
Rows(t) == 1..Len(t)

Known(agent_id) == \E i \in Rows(agents) : agents[i].agent_id = agent_id

\* C1: under sequential requests, a successful registration returns the
\* agent_id of the one record of its hostname, so registering a hostname
\* again returns the same agent_id; the step that commits a re-registration
\* adds no record, and no step changes a record's agent_id, hostname or
\* enabled flag or moves its last_seen back.
C1_ReturnsTheRecord ==
    (ret.op = "create_agent" /\ ret.ok) =>
        \E i \in Rows(agents) :
            /\ agents[i].hostname = ret.arg
            /\ agents[i].agent_id = ret.agent_id
            /\ \A j \in Rows(agents) : agents[j].hostname = ret.arg => j = i

C1_RecordsStable ==
    /\ Len(agents') >= Len(agents)
    /\ \A i \in Rows(agents) :
          /\ agents'[i].agent_id = agents[i].agent_id
          /\ agents'[i].hostname = agents[i].hostname
          /\ agents'[i].enabled = agents[i].enabled
          /\ agents'[i].last_seen >= agents[i].last_seen
    /\ (frame[1].pc = "reg_update_commit" /\ frame'[1].pc # "reg_update_commit") =>
          /\ Len(agents') = Len(agents)
          /\ frame'[1].pc = "idle" => ~ret'.ok
          /\ frame'[1].pc # "idle" => agents'[frame[1].found].last_seen = frame[1].t
    /\ (frame[1].pc = "reg_update_refresh" /\ frame'[1].pc = "idle") =>
          /\ agents' = agents
          /\ ret'.ok
          /\ ret'.agent_id = agents[frame[1].found].agent_id

C1_SameAgentOnReRegister == [](C1_ReturnsTheRecord) /\ [][C1_RecordsStable]_vars

\* db01 was registered before the empty-hostname agent and has returned from
\* a registration after it: a re-registration, at a later minute.
C1_Witness ==
    /\ Len(agents) = 2
    /\ agents[1].hostname = "db01"
    /\ ret.op = "create_agent" /\ ret.ok /\ ret.arg = "db01"
    /\ ret.agent_id = agents[1].agent_id
    /\ agents[1].last_seen > agents[2].last_seen
    /\ frame[1].pc = "idle"

\* C2: no two agent records share a hostname and no two share an agent_id.
C2_UniqueAgents ==
    \A i \in Rows(agents), j \in Rows(agents) :
        i # j => /\ agents[i].hostname # agents[j].hostname
                 /\ agents[i].agent_id # agents[j].agent_id

\* C3: no step moves the stored last_seen of an agent back.
C3_LastSeenMonotone ==
    [][\A i \in Rows(agents) : agents'[i].last_seen >= agents[i].last_seen]_vars

\* C4: a heartbeat for an agent_id that names no agent returns false, raises
\* nothing and leaves every table as it was; every heartbeat for a known
\* agent ends by returning true with the instant the call read stored as the
\* agent's last_seen.
C4_HeartbeatStep ==
    /\ (ret' # ret /\ ret'.op = "update_agent_heartbeat"
          /\ ~Known(ret'.agent_id)) =>
          /\ ~ret'.ok
          /\ ret'.exc = "none"
          /\ storeVars' = storeVars
    /\ \A p \in Procs :
          (frame[p].pc = "hb_commit" /\ frame'[p].pc = "idle") =>
             /\ ret'.op = "update_agent_heartbeat"
             /\ ret'.agent_id = agents[frame[p].found].agent_id
             /\ ret'.ok
             /\ agents'[frame[p].found].last_seen = frame[p].t

C4_Heartbeat == [][C4_HeartbeatStep]_vars

\* C5: every health score of a health report lies in [0, 100].
C5_ScoreInRange ==
    out.op = "generate_agent_health_report" =>
        \A i \in Rows(out.agents) :
            /\ out.agents[i].health_score >= Points(0)
            /\ out.agents[i].health_score <= Points(100)

\* An agent never seen since minute 0 whose jobs all failed: every penalty
\* applies and the score is cut off at 0.
C5_Witness ==
    /\ out.op = "generate_agent_health_report"
    /\ Len(out.agents) = 1
    /\ out.agents[1].issues = {"high_failure_rate", "not_reporting", "low_success_rate"}
    /\ out.agents[1].stats.failed_backups = out.agents[1].stats.total_backups
    /\ out.agents[1].stats.total_backups > 0
    /\ out.agents[1].last_seen = 0
    /\ out.agents[1].health_score = Points(0)

\* C6: every stored BackupJob references an existing agent.
C6_JobsReferenceAgents ==
    \A j \in Rows(jobs) : Known(jobs[j].agent_id)

\* C7: no agent record is stored for an empty hostname (and so no
\* configuration record, which is created for a stored agent only).
C7_NoEmptyHostname ==
    \A i \in Rows(agents) : agents[i].hostname # ""

\* C8: every stored BackupJob has a status among running, success, failed and
\* warning, a size of at least 0 and, when it has an end_time, one that is
\* not before its start_time.
C8_JobsWellFormed ==
    \A j \in Rows(jobs) :
        /\ jobs[j].status \in {"running", "success", "failed", "warning"}
        /\ jobs[j].size_bytes >= 0
        /\ jobs[j].end_time # NoTime => jobs[j].end_time >= jobs[j].start_time

\* C9: every stored event has a (category, event_type) pair of the vocabulary
\* and a known priority; a create_event call whose pair or priority is not of
\* the vocabulary raises ValueError and stores no event and no notification.
InVocabulary(category, event_type, priority) ==
    /\ category \in {"agent", "backup", "system", "security"}
    /\ event_type \in EVENT_CATEGORIES[category]
    /\ priority \in {"low", "medium", "high", "critical"}

C9_StoredEventsValid ==
    \A i \in Rows(events) :
        InVocabulary(events[i].category, events[i].event_type, events[i].priority)

C9_RejectStep ==
    (ret' # ret /\ ret'.op = "create_event"
       /\ ~InVocabulary(ret'.arg[1], ret'.arg[2], ret'.arg[3])) =>
       /\ ret'.exc = "ValueError"
       /\ events' = events
       /\ notifications' = notifications
       /\ emails' = emails

C9_EventVocabulary == [](C9_StoredEventsValid) /\ [][C9_RejectStep]_vars

\* create_event("agent", "unknown_type") was rejected and nothing is stored.
C9_Witness ==
    /\ ret.op = "create_event"
    /\ ret.arg = <<"agent", "unknown_type", "high">>
    /\ ret.exc = "ValueError"
    /\ events = <<>> /\ notifications = <<>>

\* C10: at each place that classifies liveness, an agent is online exactly
\* when the instant read there minus last_seen is below 15 minutes, and
\* offline (selected by check_offline_agents) otherwise.
OnlineAt(last_seen, t) == t - last_seen < 15

C10_LivenessEverywhere ==
    /\ (out.op = "get_agent_stats" /\ out.known) =>
          (out.stats.status = "online" <=> OnlineAt(out.stats.last_seen, out.stats.t))
    /\ out.op = "generate_agent_health_report" =>
          \A i \in Rows(out.agents) :
             /\ out.agents[i].status = "online"
                   <=> OnlineAt(out.agents[i].last_seen, out.agents[i].clk.online)
             /\ out.agents[i].stats.status = "online"
                   <=> OnlineAt(out.agents[i].last_seen, out.agents[i].clk.stats)
    /\ out.op = "check_offline_agents" =>
          \A i \in Rows(agents) :
             agents[i].agent_id \in out.offline
                <=> ~OnlineAt(agents[i].last_seen, out.t)

\* C11: while the registry is unchanged (no heartbeat, no job report), the
\* ticks of the offline check record at most one offline event per agent.
C11_OneOfflineAlertPerAgent ==
    \A i \in Rows(events), j \in Rows(events) :
        (i # j /\ events[i].category = "agent" /\ events[i].event_type = "offline"
               /\ events[j].category = "agent" /\ events[j].event_type = "offline")
           => events[i].agent_id # events[j].agent_id

\* C12: a create_event call with a pair of the vocabulary and priority high
\* or critical whose event record was stored returns to its caller without
\* an exception, whatever happened in the notification step.
C12_NotificationFailureContained ==
    [][\A p \in Procs :
         (frame[p].op = "create_event" /\ frame'[p].pc = "idle"
            /\ frame[p].pc \in {"event_refresh", "send_event_notification",
                               "notification_refresh", "send_notification_email"}
            /\ InVocabulary(frame[p].arg[1], frame[p].arg[2], frame[p].arg[3])
            /\ frame[p].arg[3] \in {"high", "critical"})
           => (ret'.op = "create_event" /\ ret'.proc = p /\ ret'.exc = "none")]_vars

\* C13: no step of a create_event call of priority low or medium stores a
\* notification or sends an email, and no stored notification is that of an
\* event of priority low or medium; every email sent is for a stored
\* notification of priority high or critical, and is sent by the step that
\* follows the storing of that notification in the same call.
LowOrMedium(f) == f.op = "create_event" /\ f.arg[3] \in {"low", "medium"}

C13_StoredEmailsHigh ==
    /\ \A i \in Rows(emails) :
          /\ emails[i].priority \in {"high", "critical"}
          /\ \E n \in Rows(notifications) :
                /\ notifications[n].title = emails[i].subject
                /\ notifications[n].priority = emails[i].priority
    /\ \A n \in Rows(notifications) :
          notifications[n].title[1] = "Evento" =>
             /\ notifications[n].title[2] \in {"high", "critical"}
             /\ notifications[n].priority = notifications[n].title[2]
             /\ \E k \in Rows(events) :
                   /\ events[k].priority = notifications[n].priority
                   /\ events[k].event_type = notifications[n].title[3]

C13_DispatchStep ==
    /\ \A p \in Procs :
          (frame'[p] # frame[p] /\ (LowOrMedium(frame[p]) \/ LowOrMedium(frame'[p]))) =>
             /\ notifications' = notifications
             /\ emails' = emails
    /\ (ret' # ret /\ ret'.op = "create_event" /\ ret'.arg[3] \in {"low", "medium"}) =>
          /\ notifications' = notifications
          /\ emails' = emails
    /\ emails' # emails =>
          /\ Len(emails') = Len(emails) + 1
          /\ \E i \in Rows(notifications) :
                /\ notifications[i].priority \in {"high", "critical"}
                /\ notifications[i].priority = emails'[Len(emails')].priority
                /\ notifications[i].title = emails'[Len(emails')].subject

C13_DispatchOnlyHigh == [](C13_StoredEmailsHigh) /\ [][C13_DispatchStep]_vars

\* A medium event was created and returned, the daily report has run to its
\* end and a low notification was sent directly: two notification rows of
\* priority low, none for the event, and no email.
C13_Witness ==
    /\ Len(events) = 1 /\ events[1].priority = "medium"
    /\ ret.op = "create_event" /\ ret.ok /\ ret.arg[3] = "medium"
    /\ out.op = "generate_daily_report" /\ out.exc = "none" /\ out.handled = "none"
    /\ Len(notifications) = 2
    /\ \A n \in Rows(notifications) : notifications[n].priority = "low"
    /\ emails = <<>>

\* C14: the config_hash of every agent that has a stored configuration is
\* the hash of that configuration.
json_loads(text) == text.json

C14_HashOfStoredConfig ==
    \A i \in Rows(agents), c \in Rows(configs) :
        (configs[c].agent_id = agents[i].agent_id
           /\ \A d \in 1..(c - 1) : configs[d].agent_id # agents[i].agent_id)
          => agents[i].config_hash = generate_config_hash(json_loads(configs[c].config))

\* C15: whenever an agent program has had a heartbeat answered with 404, it
\* later has a heartbeat answered with 200 (it registered again and adopted
\* the agent_id of the answer), whichever implementation runs.
C15_RecoversAfter404 == (client.last = 404) ~> (client.last = 200)

\* C16: for an agent with no backup job the statistics give success_rate 0,
\* and for an agent with no backup job in the window (so for one with none at
\* all) the performance metrics give success_rate 0 and avg_duration 0.
NoJobs(agent_id) == \A j \in Rows(jobs) : jobs[j].agent_id # agent_id

NoJobsSince(agent_id, start_date) ==
    \A j \in Rows(jobs) : jobs[j].agent_id = agent_id => jobs[j].start_time < start_date

C16_ZeroWithoutJobs ==
    /\ (out.op = "get_agent_stats" /\ out.known /\ NoJobs(out.agent_id)) =>
          /\ out.stats.total_backups = 0
          /\ out.stats.success_rate = 0
    /\ out.op = "generate_agent_health_report" =>
          \A i \in Rows(out.agents) :
             /\ NoJobs(out.agents[i].agent_id) =>
                   /\ out.agents[i].stats.success_rate = 0
                   /\ out.agents[i].performance.success_rate = 0
                   /\ out.agents[i].performance.avg_duration = 0
             /\ NoJobsSince(out.agents[i].agent_id,
                            out.agents[i].clk.perf - 7 * MinutesPerDay) =>
                   /\ out.agents[i].performance.success_rate = 0
                   /\ out.agents[i].performance.avg_duration = 0
                   /\ out.agents[i].performance.total_backups = 0

\* The report of an agent that has no job at all.
C16_Witness ==
    /\ out.op = "generate_agent_health_report"
    /\ jobs = <<>>
    /\ Len(out.agents) = 1
    /\ out.agents[1].stats.total_backups = 0
    /\ out.agents[1].stats.success_rate = 0
    /\ out.agents[1].performance.avg_duration = 0

\* C17: avg_duration of the performance metrics is the sum of end_time -
\* start_time over the jobs of the window that have an end_time, divided by
\* the number of those jobs (0 when there is none), in hundredths of a second.
RECURSIVE SumOver(_, _)
SumOver(S, f) ==
    IF S = {} THEN 0
    ELSE LET x == CHOOSE y \in S : TRUE IN f[x] + SumOver(S \ {x}, f)

FinishedInWindow(agent_id, start_date) ==
    {j \in Rows(jobs) : /\ jobs[j].agent_id = agent_id
                        /\ jobs[j].start_time >= start_date
                        /\ jobs[j].end_time # NoTime}

AvgOfFinished(agent_id, start_date) ==
    LET finished == FinishedInWindow(agent_id, start_date)
        seconds == SumOver(finished,
                           [j \in finished |-> (jobs[j].end_time - jobs[j].start_time) * 60])
    IN IF finished = {} THEN 0
       ELSE (2 * seconds * 100 + Cardinality(finished)) \div (2 * Cardinality(finished))

C17_AvgOverFinishedJobs ==
    out.op = "generate_agent_health_report" =>
        \A i \in Rows(out.agents) :
            out.agents[i].performance.avg_duration
               = AvgOfFinished(out.agents[i].agent_id,
                               out.agents[i].clk.perf - 7 * MinutesPerDay)

\* C18: the priority of every tip is the highest priority among the
\* solutions of its rule, under low < medium < high < critical.
PriorityOrder == [low |-> 1, medium |-> 2, high |-> 3, critical |-> 4]

C18_TipPriorityIsHighest ==
    out.op = "analyze_agent_health" =>
        \A k \in Rows(out.tips) :
            \A n \in Rows(out.tips[k].solutions) :
                PriorityOrder[out.tips[k].priority]
                   >= PriorityOrder[out.tips[k].solutions[n]]

\* C19: analyze_agent_health yields the agent_offline tip exactly when the
\* agent is offline and its last_seen is more than 1 hour (60 minutes) before
\* the instant at which the rule is evaluated.
HasTip(id) == \E k \in Rows(out.tips) : out.tips[k].id = id

C19_OfflineTipAfterOneHour ==
    (out.op = "analyze_agent_health" /\ out.known) =>
        (HasTip("agent_offline")
           <=> (out.status = "offline" /\ out.clk.rule - out.last_seen > 60))

\* C20: the health score of a report entry is 100, less 30 / 40 / 20 for the
\* issues high_failure_rate / not_reporting / low_success_rate, less half of
\* what success_rate lacks to 80, plus 10 when the agent is online at the
\* instant the score is computed, cut off to [0, 100].  Scores are in 200ths
\* of a point and rates in hundredths of a percent.
ExpectedScore(entry) ==
    LET raw == 100 * 200
               - (IF "high_failure_rate" \in entry.issues THEN 30 * 200 ELSE 0)
               - (IF "not_reporting" \in entry.issues THEN 40 * 200 ELSE 0)
               - (IF "low_success_rate" \in entry.issues THEN 20 * 200 ELSE 0)
               - (IF entry.performance.success_rate < 80 * 100
                  THEN 80 * 100 - entry.performance.success_rate ELSE 0)
               + (IF entry.clk.score - entry.last_seen < 15 THEN 10 * 200 ELSE 0)
    IN IF raw < 0 THEN 0 ELSE IF raw > 100 * 200 THEN 100 * 200 ELSE raw

C20_HealthScoreFormula ==
    out.op = "generate_agent_health_report" =>
        \A i \in Rows(out.agents) :
            out.agents[i].health_score = ExpectedScore(out.agents[i])

\* 7 successes and 3 failures in the window, last_seen = now: success_rate
\* 70 and score 85.
C20_Witness ==
    /\ out.op = "generate_agent_health_report"
    /\ Len(jobs) = 10
    /\ out.agents[1].performance.total_backups = 10
    /\ out.agents[1].stats.success_backups = 7
    /\ out.agents[1].stats.failed_backups = 3
    /\ out.agents[1].last_seen = out.agents[1].clk.score
    /\ out.agents[1].performance.success_rate = 70 * 100
    /\ out.agents[1].issues = {"low_success_rate"}
    /\ out.agents[1].health_score = 85 * 200

\* C21: in every entry of the health report, high_failure_rate is an issue
\* iff more than 30 percent of the agent's jobs (of all time) failed,
\* not_reporting iff last_seen is more than 1 hour before the instant read
\* for it, and low_success_rate iff the success_rate of the window is below
\* 80; the issue set holds nothing else.
CountJobs(agent_id, statuses) ==
    Cardinality({j \in Rows(jobs) : jobs[j].agent_id = agent_id
                                    /\ jobs[j].status \in statuses})

AllStatuses == {jobs[j].status : j \in Rows(jobs)}

C21_IssuePredicates ==
    out.op = "generate_agent_health_report" =>
        \A i \in Rows(out.agents) :
            LET entry == out.agents[i] IN
            /\ "high_failure_rate" \in entry.issues
                  <=> 10 * CountJobs(entry.agent_id, {"failed"})
                         > 3 * CountJobs(entry.agent_id, AllStatuses)
            /\ "not_reporting" \in entry.issues
                  <=> entry.clk.issue - entry.last_seen > 60
            /\ "low_success_rate" \in entry.issues
                  <=> entry.performance.success_rate < 80 * 100
            /\ entry.issues \subseteq
                  {"high_failure_rate", "not_reporting", "low_success_rate"}

\* An agent seen this minute that has no job: low_success_rate alone.
C21_Witness ==
    /\ out.op = "generate_agent_health_report"
    /\ jobs = <<>>
    /\ out.agents[1].last_seen = out.agents[1].clk.issue
    /\ out.agents[1].issues = {"low_success_rate"}

\* C22: analyze_agent_health emits a tip for a rule only if the rule is of
\* category agent and every metric predicate of the rule names a metric the
\* agent has and holds on it (a last_seen predicate at the instant the clock
\* was read for it); so a rule naming a metric the agent lacks yields no tip.
\* An analysis raises nothing for an unknown agent, and where it raises, the
\* condition it raises at names a metric the agent has.
\* A duration is a number of hours ("1h"), of minutes ("10m") or of seconds.
SecondsPer == ("h" :> 3600) @@ ("m" :> 60) @@ ("" :> 1)

Elapsed(c, limit, elapsed) ==
    \/ c.operator = "<" /\ elapsed < limit
    \/ c.operator = ">" /\ elapsed > limit

PredicateHolds(c, metrics, t) ==
    CASE c.name = "last_seen" ->
            /\ c.value[2] \in DOMAIN SecondsPer
            /\ Elapsed(c, c.value[1] * SecondsPer[c.value[2]], 60 * (t - metrics.last_seen))
      [] c.name = "status" ->
            \/ c.operator = "==" /\ metrics.status = c.value
            \/ c.operator = "!=" /\ metrics.status # c.value
      [] OTHER ->
            LET hundredths == c.name \in {"success_rate", "avg_duration_seconds"}
                value == IF hundredths THEN 100 * c.value ELSE c.value IN
            \/ c.operator = "<" /\ metrics[c.name] < value
            \/ c.operator = ">" /\ metrics[c.name] > value
            \/ c.operator = "==" /\ metrics[c.name] = value

\* The instants at which the clock was read for condition m of rule r.
ReadFor(r, m) ==
    {out.clk.conditions[k].t : k \in {i \in Rows(out.clk.conditions) :
                                        /\ out.clk.conditions[i].rule = r
                                        /\ out.clk.conditions[i].cond = m}}

C22_TipsOnlyWhenAllHold ==
    out.op = "analyze_agent_health_over" =>
        LET rules == RuleSamples[out.database] IN
        /\ ~out.known => (out.tips = <<>> /\ out.exc = "none")
        /\ out.known =>
              /\ \A k \in Rows(out.tips) :
                    \E r \in Rows(rules) :
                       /\ rules[r].id = out.tips[k].id
                       /\ rules[r].category = "agent"
                       /\ \A m \in Rows(rules[r].metrics) :
                             LET c == rules[r].metrics[m] IN
                             /\ c.name \in DOMAIN out.metrics
                             /\ IF c.name = "last_seen"
                                THEN /\ ReadFor(r, m) # {}
                                     /\ \A t \in ReadFor(r, m) :
                                           PredicateHolds(c, out.metrics, t)
                                ELSE PredicateHolds(c, out.metrics, 0)
              /\ out.exc # "none" =>
                    rules[out.rule].metrics[out.cond].name \in DOMAIN out.metrics

\* An online agent (no offline_duration) with a success_rate below 80,
\* analysed over rules one predicate of which holds while the other names a
\* metric it lacks: the analysis ends with no tip and no exception.
C22_Witness ==
    /\ out.op = "analyze_agent_health_over" /\ out.known
    /\ out.database = 4
    /\ out.exc = "none"
    /\ out.metrics.status = "online"
    /\ out.metrics.success_rate < 80 * 100
    /\ "offline_duration" \notin DOMAIN out.metrics
    /\ out.tips = <<>>

\* C23: the counts get_agent_stats returns satisfy success_backups +
\* failed_backups <= total_backups and success_rate <= 100, whatever job
\* reports are committed while it runs.
C23_ConsistentCounts ==
    (out.op = "get_agent_stats" /\ out.known) =>
        /\ out.stats.success_backups + out.stats.failed_backups <= out.stats.total_backups
        /\ out.stats.success_rate <= 100 * 100

\* C24: update_agent_heartbeat returns false only for an agent_id that names
\* no agent; a heartbeat whose commit the store refuses does not return false.
C24_FalseOnlyForUnknown ==
    (ret.op = "update_agent_heartbeat" /\ ~ret.ok) => ~Known(ret.agent_id)

\* The step that ends a run of the job `op`; out' then holds what it leaves.
JobEnds(op) == \E p \in Procs : frame[p].op = op /\ frame'[p].pc = "idle"

\* The rows appended to a table since it had `first` rows.
Appended(first, after) == SubSeq(after, first + 1, Len(after))

\* C25: a run of the storage monitor records one critical system event and
\* one critical notification when the usage is above 90 percent, one high
\* event and notification when it is above 80 and at most 90, and nothing
\* when it is at most 80.
C25_Recorded(priority) ==
    /\ Len(events') = out'.first[1] + 1
    /\ events'[Len(events')].category = "system"
    /\ events'[Len(events')].priority = priority
    /\ Len(notifications') >= out'.first[2] + 1
    /\ notifications'[Len(notifications')].category = "system"
    /\ notifications'[Len(notifications')].priority = priority

C25_MonitorStep ==
    JobEnds("monitor_storage_usage") =>
        IF out'.usage_percent > 90 THEN C25_Recorded("critical")
        ELSE IF out'.usage_percent > 80 THEN C25_Recorded("high")
        ELSE /\ Len(events') = out'.first[1]
             /\ Len(notifications') = out'.first[2]

C25_StorageAlerts == [][C25_MonitorStep]_vars

\* C26: a tick of check_offline_agents that records an offline event and a
\* notification about an agent it found offline records exactly one such
\* event and exactly one notification about that agent, not two.
C26_TickStep ==
    (JobEnds("check_offline_agents") /\ Len(events') > out'.first[1]) =>
        \A id \in out'.offline :
            LET evs == SelectSeq(Appended(out'.first[1], events'),
                                 LAMBDA e : e.agent_id = id /\ e.category = "agent"
                                            /\ e.event_type = "offline")
                nts == SelectSeq(Appended(out'.first[2], notifications'),
                                 LAMBDA n : n.related_id = id)
            IN (Len(evs) >= 1 /\ Len(nts) >= 1) => (Len(evs) = 1 /\ Len(nts) = 1)

C26_OneNotificationPerAgent == [][C26_TickStep]_vars

\* C27: when a tick of check_offline_agents that recorded an offline event is
\* over, every agent whose last_seen was older than 15 minutes has an offline
\* event, even if the alert for another agent failed.
C27_TickStep ==
    (JobEnds("check_offline_agents") /\ Len(events') > out'.first[1]) =>
        \A i \in Rows(agents) :
            OfflineSelected(agents[i].last_seen, out'.t) =>
                \E k \in Rows(events') :
                    /\ events'[k].agent_id = agents[i].agent_id
                    /\ events'[k].category = "agent"
                    /\ events'[k].event_type = "offline"

C27_NoOfflineAgentSkipped == [][C27_TickStep]_vars

HasConfig(agent_id) == \E c \in Rows(configs) : configs[c].agent_id = agent_id

\* C28: whenever no request is in progress, every agent record has a
\* configuration record, also after a registration whose second commit failed.
C28_EveryAgentConfigured ==
    (\A p \in Procs : frame[p].pc = "idle") =>
        \A i \in Rows(agents) : HasConfig(agents[i].agent_id)

\* The second half of C28: the agent a successful registration returns has
\* a configuration record (a registration restores a missing one).
C28_RegistrationRestores ==
    (ret.op = "create_agent" /\ ret.ok /\ \A p \in Procs : frame[p].pc = "idle")
        => HasConfig(ret.agent_id)

\* C29: in every entry of the health report the liveness verdicts agree: the
\* status is online iff the +10 bonus was applied to the score, the status of
\* the nested statistics is the status of the entry, and an entry with the
\* not_reporting issue is offline.
C29_VerdictsAgree ==
    out.op = "generate_agent_health_report" =>
        \A i \in Rows(out.agents) :
            LET e == out.agents[i]
                bonus == e.last_seen > e.clk.score - 15
            IN /\ (e.status = "online") <=> bonus
               /\ e.stats.status = e.status
               /\ "not_reporting" \in e.issues => e.status = "offline"

\* What a call of the scheduler object can change of it.
SchedulerObject(s) == <<s.jobs, s.running, s.state, s.pending, s.stored>>

SetOf(seq) == {seq[k] : k \in 1..Len(seq)}

\* C30, first part: start() while running and shutdown() while not running
\* change nothing.
C30_NoOpStep ==
    /\ (scheduler'.call.op = "start" /\ scheduler.running) =>
           SchedulerObject(scheduler') = SchedulerObject(scheduler)
    /\ (scheduler'.call.op = "shutdown" /\ ~scheduler.running) =>
           SchedulerObject(scheduler') = SchedulerObject(scheduler)

\* C30, second part: the registry holds at most one job per id, and so do
\* the jobs the BackgroundScheduler holds.
C30_OneJobPerId ==
    /\ \A i \in Rows(scheduler.jobs), j \in Rows(scheduler.jobs) :
          scheduler.jobs[i] = scheduler.jobs[j] => i = j
    /\ \A i \in Rows(scheduler.pending), j \in Rows(scheduler.pending) :
          scheduler.pending[i] = scheduler.pending[j] => i = j

\* C30, third part: right after a start() from the stopped state the
\* registry contains the five system jobs.
C30_StartStep ==
    (scheduler' # scheduler /\ scheduler'.call.op = "start" /\ ~scheduler.running) =>
        SetOf(SystemTasks) \subseteq SetOf(scheduler'.jobs)

\* C30: the lifecycle of the scheduler object: start() while running and
\* shutdown() while not running change nothing, the registry holds at most
\* one job per id after any sequence of calls, and right after a start() from
\* the stopped state the registry contains the five system jobs.
C30_Lifecycle ==
    [](C30_OneJobPerId) /\ [][C30_NoOpStep /\ C30_StartStep]_vars

====
